---- MODULE Spec2Model ----
(***************************************************************************)
(* A model of the coordination core of golikejs: Channel and select        *)
(* (src/src/log/slog/mod.ts, lines 131-498) and the cancellation contexts  *)
(* (src/src/context/context.ts).                                           *)
(*                                                                         *)
(* The runtime is single threaded: the body of a method runs to completion *)
(* without interleaving, so every method call is one atomic action.  A     *)
(* promise returned by an async method is an entry of a table (sends,      *)
(* recvs) whose state is "pending", "resolved" or "rejected".              *)
(***************************************************************************)
EXTENDS Integers, Sequences, FiniteSets, TLC

\* ------------------------------------------------------------------ bounds
\* Largest capacity a channel is created with.
MaxCap == 2
\* Values handed to send / trySend / a select send case in one behaviour.
MaxVals == 4
\* receive calls (plain or made by select) in one behaviour.
MaxRecvs == 4
\* Cases of one select call.
MaxCases == 2
\* send and receive calls, plain or made by select, in one behaviour in which
\* select is called.
MaxCalls == 4

\* The channels: 1 is the channel under study of the channel specification;
\* select is given both.
Chans == {1, 2}

\* The JavaScript value undefined; the values sent are the naturals 1, 2, ...
Undefined == 0

VARIABLES
    ch,         \* ch[c]: the private fields of channel c
    sends,      \* the promises returned by send(), in the order of the calls
    recvs,      \* the promises returned by receive(), in the order of the calls
    delivered,  \* delivered[c]: the values handed to receivers of c, in order
    ret,        \* what the last trySend or tryReceive returned
    sels,       \* the select calls, in the order of the calls
    nextVal,    \* the next value a sender will send
    ctxs,       \* the contexts, in the order of their creation
    jobs,       \* the microtask queue of the runtime
    once,       \* a Once, the calls of its do() and the function it runs
    mutex,      \* a Mutex: its lock state and its queue of pending acquirers
    condWaiters, \* the #waiters of the Cond paired with the mutex
    tasks,      \* tasks[t]: where task t is in its use of the mutex and the Cond
    microtasks, \* the continuations of the tasks that are ready to run
    timers,     \* the callbacks handed to setTimeout(_, 0), in the order set
    running,    \* the task whose synchronous section is running; 0: none is
    wg          \* a WaitGroup and the calls of its wait()

chanVars == <<ch, sends, recvs, delivered, ret, sels, nextVal>>

ctxVars == <<ctxs, jobs>>

condVars == <<mutex, condWaiters, tasks, microtasks, timers, running>>

wgVars == <<wg>>

syncVars == <<once, mutex, condWaiters, tasks, microtasks, timers, running, wg>>

vars == <<ch, sends, recvs, delivered, ret, sels, nextVal, ctxs, jobs, once,
          mutex, condWaiters, tasks, microtasks, timers, running, wg>>

\* ----------------------------------------------------------------- Channel
\* constructor(capacity): the ring buffer exists only when capacity > 0.
NewChannel(capacity) ==
    [ capacity       |-> capacity,
      buffer         |-> [i \in 0..(capacity - 1) |-> Undefined],
      head           |-> 0,
      tail           |-> 0,
      count          |-> 0,
      closed         |-> FALSE,
      sendWaiters    |-> <<>>,
      receiveWaiters |-> <<>> ]

\* The channels, promise tables and return value as one value, so that the
\* methods compose (select calls several of them in one synchronous section).
World == [ ch |-> ch, sends |-> sends, recvs |-> recvs,
           delivered |-> delivered, ret |-> ret, sels |-> sels ]

SetWorld(w) ==
    /\ ch' = w.ch
    /\ sends' = w.sends
    /\ recvs' = w.recvs
    /\ delivered' = w.delivered
    /\ ret' = w.ret
    /\ sels' = w.sels
    /\ UNCHANGED <<ctxVars, syncVars>>

Returned(op, c, value, ok) == [op |-> op, ch |-> c, value |-> value, ok |-> ok]

\* Promise.race(promises) of the select call s: the first promise to settle
\* decides the race; op is the position of the settling promise in the call.
Race(w, s, op) ==
    IF s > 0 /\ s <= Len(w.sels) /\ w.sels[s].state = "racing" /\ w.sels[s].winner = 0
    THEN [w EXCEPT !.sels[s].winner = op]
    ELSE w

\* waiter.resolve([value, ok]) of a queued receiver, or the return of
\* receive(): the receive promise id settles with [value, ok].
\* via names the branch of the code that settles it.
ResolveRecv(w, id, value, ok, via) ==
    LET c == w.recvs[id].ch
        w1 == [w EXCEPT !.recvs[id].state = "resolved",
                        !.recvs[id].value = value,
                        !.recvs[id].ok = ok,
                        !.recvs[id].via = via,
                        !.delivered[c] = IF ok THEN Append(@, value) ELSE @]
    IN  Race(w1, w.recvs[id].sel, w.recvs[id].op)

\* waiter.resolve() of a queued sender: the send promise id settles.
ResolveSend(w, id, via) ==
    Race([w EXCEPT !.sends[id].state = "resolved", !.sends[id].via = via],
         w.sends[id].sel, w.sends[id].op)

\* send with the test for room in the buffer off by one (count <= capacity).
SendOpOffByOne(w, c, value) ==
    LET chn == w.ch[c]
        id == Len(w.sends) + 1
        called(st, via) ==
            [w EXCEPT !.sends = Append(@, [ch |-> c, value |-> value, state |-> st,
                                           via |-> via, sel |-> 0, op |-> 0])]
    IN  IF chn.closed
        THEN called("rejected", "closed")
        ELSE IF Len(chn.receiveWaiters) > 0
        THEN LET waiter == Head(chn.receiveWaiters)
                 w1 == [called("resolved", "receiver") EXCEPT !.ch[c].receiveWaiters = Tail(@)]
             IN  ResolveRecv(w1, waiter.resolve, value, TRUE, "send")
        ELSE IF chn.capacity > 0 /\ chn.count <= chn.capacity
        THEN [called("resolved", "buffer") EXCEPT
                 !.ch[c].buffer[chn.tail] = value,
                 !.ch[c].tail = (chn.tail + 1) % chn.capacity,
                 !.ch[c].count = @ + 1]
        ELSE [called("pending", "queued") EXCEPT
                 !.ch[c].sendWaiters = Append(@, [value |-> value, resolve |-> id])]

\* Channel.send(value)
SendOp(w, c, value) ==
    LET chn == w.ch[c]
        id == Len(w.sends) + 1
        called(st, via) ==
            [w EXCEPT !.sends = Append(@, [ch |-> c, value |-> value, state |-> st,
                                           via |-> via, sel |-> 0, op |-> 0])]
    IN  IF chn.closed
        THEN called("rejected", "closed")
        ELSE IF Len(chn.receiveWaiters) > 0
        THEN LET waiter == Head(chn.receiveWaiters)
                 w1 == [called("resolved", "receiver") EXCEPT !.ch[c].receiveWaiters = Tail(@)]
             IN  ResolveRecv(w1, waiter.resolve, value, TRUE, "send")
        ELSE IF chn.capacity > 0 /\ chn.count < chn.capacity
        THEN [called("resolved", "buffer") EXCEPT
                 !.ch[c].buffer[chn.tail] = value,
                 !.ch[c].tail = (chn.tail + 1) % chn.capacity,
                 !.ch[c].count = @ + 1]
        ELSE [called("pending", "queued") EXCEPT
                 !.ch[c].sendWaiters = Append(@, [value |-> value, resolve |-> id])]

\* #processSendWaiters taking the newest waiter (pop) instead of the oldest (shift).
RECURSIVE ProcessSendWaitersPop(_, _)
ProcessSendWaitersPop(w, c) ==
    LET chn == w.ch[c] IN
    IF chn.count < chn.capacity /\ Len(chn.sendWaiters) > 0
    THEN LET waiter == chn.sendWaiters[Len(chn.sendWaiters)]
             w1 == [w EXCEPT !.ch[c].sendWaiters = SubSeq(@, 1, Len(@) - 1),
                             !.ch[c].buffer[chn.tail] = waiter.value,
                             !.ch[c].tail = (chn.tail + 1) % chn.capacity,
                             !.ch[c].count = @ + 1]
         IN  ProcessSendWaitersPop(ResolveSend(w1, waiter.resolve, "processSendWaiters"), c)
    ELSE w

\* Channel.#processSendWaiters()
RECURSIVE ProcessSendWaiters(_, _)
ProcessSendWaiters(w, c) ==
    LET chn == w.ch[c] IN
    IF chn.count < chn.capacity /\ Len(chn.sendWaiters) > 0
    THEN LET waiter == Head(chn.sendWaiters)
             w1 == [w EXCEPT !.ch[c].sendWaiters = Tail(@),
                             !.ch[c].buffer[chn.tail] = waiter.value,
                             !.ch[c].tail = (chn.tail + 1) % chn.capacity,
                             !.ch[c].count = @ + 1]
         IN  ProcessSendWaiters(ResolveSend(w1, waiter.resolve, "processSendWaiters"), c)
    ELSE w

\* The head of the ring buffer is taken and the queued senders are left alone.
TakeFromBufferNoRefill(w, c) ==
    LET chn == w.ch[c]
    IN  [w EXCEPT !.ch[c].buffer[chn.head] = Undefined,
                  !.ch[c].head = (chn.head + 1) % chn.capacity,
                  !.ch[c].count = @ - 1]

\* The head of the ring buffer is taken and the queued senders are serviced
\* (the common first branch of receive and tryReceive).
TakeFromBuffer(w, c) ==
    LET chn == w.ch[c]
        w1 == [w EXCEPT !.ch[c].buffer[chn.head] = Undefined,
                        !.ch[c].head = (chn.head + 1) % chn.capacity,
                        !.ch[c].count = @ - 1]
    IN  ProcessSendWaiters(w1, c)

\* receive testing the closed flag before the buffer.
ReceiveOpClosedFirst(w, c) ==
    LET chn == w.ch[c]
        id == Len(w.recvs) + 1
        called == [w EXCEPT !.recvs = Append(@, [ch |-> c, state |-> "pending",
                                                  value |-> Undefined, ok |-> FALSE,
                                                  via |-> "queued", sel |-> 0, op |-> 0,
                                                  closedAtCall |-> chn.closed])]
    IN  IF chn.closed
        THEN ResolveRecv(called, id, Undefined, FALSE, "closed")
        ELSE IF chn.count > 0
        THEN ResolveRecv(TakeFromBuffer(called, c), id, chn.buffer[chn.head], TRUE, "buffer")
        ELSE IF Len(chn.sendWaiters) > 0
        THEN LET waiter == Head(chn.sendWaiters)
                 w1 == [called EXCEPT !.ch[c].sendWaiters = Tail(@)]
             IN  ResolveRecv(ResolveSend(w1, waiter.resolve, "receive"), id, waiter.value,
                             TRUE, "sender")
        ELSE [called EXCEPT !.ch[c].receiveWaiters = Append(@, [resolve |-> id])]

\* receive taking the value of a queued sender without calling waiter.resolve().
ReceiveOpNoResolve(w, c) ==
    LET chn == w.ch[c]
        id == Len(w.recvs) + 1
        called == [w EXCEPT !.recvs = Append(@, [ch |-> c, state |-> "pending",
                                                  value |-> Undefined, ok |-> FALSE,
                                                  via |-> "queued", sel |-> 0, op |-> 0,
                                                  closedAtCall |-> chn.closed])]
    IN  IF chn.count > 0
        THEN ResolveRecv(TakeFromBuffer(called, c), id, chn.buffer[chn.head], TRUE, "buffer")
        ELSE IF Len(chn.sendWaiters) > 0
        THEN LET waiter == Head(chn.sendWaiters)
                 w1 == [called EXCEPT !.ch[c].sendWaiters = Tail(@)]
             IN  ResolveRecv(w1, id, waiter.value, TRUE, "sender")
        ELSE IF chn.closed
        THEN ResolveRecv(called, id, Undefined, FALSE, "closed")
        ELSE [called EXCEPT !.ch[c].receiveWaiters = Append(@, [resolve |-> id])]

\* Channel.receive()
ReceiveOp(w, c) ==
    LET chn == w.ch[c]
        id == Len(w.recvs) + 1
        called == [w EXCEPT !.recvs = Append(@, [ch |-> c, state |-> "pending",
                                                  value |-> Undefined, ok |-> FALSE,
                                                  via |-> "queued", sel |-> 0, op |-> 0,
                                                  closedAtCall |-> chn.closed])]
    IN  IF chn.count > 0
        THEN ResolveRecv(TakeFromBuffer(called, c), id, chn.buffer[chn.head], TRUE, "buffer")
        ELSE IF Len(chn.sendWaiters) > 0
        THEN LET waiter == Head(chn.sendWaiters)
                 w1 == [called EXCEPT !.ch[c].sendWaiters = Tail(@)]
             IN  ResolveRecv(ResolveSend(w1, waiter.resolve, "receive"), id, waiter.value,
                             TRUE, "sender")
        ELSE IF chn.closed
        THEN ResolveRecv(called, id, Undefined, FALSE, "closed")
        ELSE [called EXCEPT !.ch[c].receiveWaiters = Append(@, [resolve |-> id])]

\* this.#receiveWaiters.forEach((waiter) => waiter.resolve([undefined, false]))
RECURSIVE WakeReceivers(_, _)
WakeReceivers(w, waiters) ==
    IF waiters = <<>>
    THEN w
    ELSE WakeReceivers(ResolveRecv(w, Head(waiters).resolve, Undefined, FALSE, "close"),
                       Tail(waiters))

\* close() that throws when the channel is closed already (as a Go channel
\* panics); the exception is what the caller gets back.
CloseOpThrowsWhenClosed(w, c) ==
    LET chn == w.ch[c]
    IN  IF chn.closed
        THEN [w EXCEPT !.ret = Returned("close", c, Undefined, FALSE)]
        ELSE LET w1 == [w EXCEPT !.ch[c].closed = TRUE,
                                      !.ch[c].sendWaiters = <<>>]
                 w2 == WakeReceivers(w1, chn.receiveWaiters)
             IN  [w2 EXCEPT !.ch[c].receiveWaiters = <<>>]

\* Channel.close().  The callback of this.#sendWaiters.forEach is empty: the
\* sender queue is emptied and the promises of its senders are not touched.
CloseOp(w, c) ==
    LET chn == w.ch[c]
    IN  IF chn.closed
        THEN w
        ELSE LET w1 == [w EXCEPT !.ch[c].closed = TRUE,
                                      !.ch[c].sendWaiters = <<>>]
                 w2 == WakeReceivers(w1, chn.receiveWaiters)
             IN  [w2 EXCEPT !.ch[c].receiveWaiters = <<>>]

\* Channel.tryReceive()
TryReceiveOp(w, c) ==
    LET chn == w.ch[c]
        deliver(w1, value) ==
            [w1 EXCEPT !.ret = Returned("tryReceive", c, value, TRUE),
                       !.delivered[c] = Append(@, value)]
    IN  IF chn.count > 0
        THEN deliver(TakeFromBuffer(w, c), chn.buffer[chn.head])
        ELSE IF Len(chn.sendWaiters) > 0
        THEN LET waiter == Head(chn.sendWaiters)
                 w1 == [w EXCEPT !.ch[c].sendWaiters = Tail(@)]
             IN  deliver(ResolveSend(w1, waiter.resolve, "receive"), waiter.value)
        ELSE [w EXCEPT !.ret = Returned("tryReceive", c, Undefined, FALSE)]

\* trySend trying the buffer before the waiting receivers.
TrySendOpBufferFirst(w, c, value) ==
    LET chn == w.ch[c]
        returned(ok) == [w EXCEPT !.ret = Returned("trySend", c, value, ok)]
    IN  IF chn.closed
        THEN returned(FALSE)
        ELSE IF chn.capacity > 0 /\ chn.count < chn.capacity
        THEN [returned(TRUE) EXCEPT
                 !.ch[c].buffer[chn.tail] = value,
                 !.ch[c].tail = (chn.tail + 1) % chn.capacity,
                 !.ch[c].count = @ + 1]
        ELSE IF Len(chn.receiveWaiters) > 0
        THEN LET waiter == Head(chn.receiveWaiters)
                 w1 == [returned(TRUE) EXCEPT !.ch[c].receiveWaiters = Tail(@)]
             IN  ResolveRecv(w1, waiter.resolve, value, TRUE, "send")
        ELSE returned(FALSE)

\* trySend without the test of the closed flag.
TrySendOpNoClosedTest(w, c, value) ==
    LET chn == w.ch[c]
        returned(ok) == [w EXCEPT !.ret = Returned("trySend", c, value, ok)]
    IN  IF Len(chn.receiveWaiters) > 0
        THEN LET waiter == Head(chn.receiveWaiters)
                 w1 == [returned(TRUE) EXCEPT !.ch[c].receiveWaiters = Tail(@)]
             IN  ResolveRecv(w1, waiter.resolve, value, TRUE, "send")
        ELSE IF chn.capacity > 0 /\ chn.count < chn.capacity
        THEN [returned(TRUE) EXCEPT
                 !.ch[c].buffer[chn.tail] = value,
                 !.ch[c].tail = (chn.tail + 1) % chn.capacity,
                 !.ch[c].count = @ + 1]
        ELSE returned(FALSE)

\* trySend with the test for room in the buffer off by one (count <= capacity).
TrySendOpOffByOne(w, c, value) ==
    LET chn == w.ch[c]
        returned(ok) == [w EXCEPT !.ret = Returned("trySend", c, value, ok)]
    IN  IF chn.closed
        THEN returned(FALSE)
        ELSE IF Len(chn.receiveWaiters) > 0
        THEN LET waiter == Head(chn.receiveWaiters)
                 w1 == [returned(TRUE) EXCEPT !.ch[c].receiveWaiters = Tail(@)]
             IN  ResolveRecv(w1, waiter.resolve, value, TRUE, "send")
        ELSE IF chn.capacity > 0 /\ chn.count <= chn.capacity
        THEN [returned(TRUE) EXCEPT
                 !.ch[c].buffer[chn.tail % chn.capacity] = value,
                 !.ch[c].tail = (chn.tail + 1) % chn.capacity,
                 !.ch[c].count = @ + 1]
        ELSE returned(FALSE)

\* Channel.trySend(value)
TrySendOp(w, c, value) ==
    LET chn == w.ch[c]
        returned(ok) == [w EXCEPT !.ret = Returned("trySend", c, value, ok)]
    IN  IF chn.closed
        THEN returned(FALSE)
        ELSE IF Len(chn.receiveWaiters) > 0
        THEN LET waiter == Head(chn.receiveWaiters)
                 w1 == [returned(TRUE) EXCEPT !.ch[c].receiveWaiters = Tail(@)]
             IN  ResolveRecv(w1, waiter.resolve, value, TRUE, "send")
        ELSE IF chn.capacity > 0 /\ chn.count < chn.capacity
        THEN [returned(TRUE) EXCEPT
                 !.ch[c].buffer[chn.tail] = value,
                 !.ch[c].tail = (chn.tail + 1) % chn.capacity,
                 !.ch[c].count = @ + 1]
        ELSE returned(FALSE)

\* Channel.hasData()
HasData(w, c) == w.ch[c].count > 0 \/ Len(w.ch[c].sendWaiters) > 0

\* Channel.canSend()
CanSend(w, c) ==
    \/ Len(w.ch[c].receiveWaiters) > 0
    \/ (w.ch[c].capacity > 0 /\ w.ch[c].count < w.ch[c].capacity)

\* ------------------------------------------------- the callers of a channel
\* Any task may call any method of a channel at any time.
Send(c) ==
    /\ nextVal <= MaxVals
    /\ SetWorld(SendOp(World, c, nextVal))
    /\ nextVal' = nextVal + 1

TrySend(c) ==
    /\ nextVal <= MaxVals
    /\ SetWorld(TrySendOp(World, c, nextVal))
    /\ nextVal' = nextVal + 1

Receive(c) ==
    /\ Len(recvs) < MaxRecvs
    /\ SetWorld(ReceiveOp(World, c))
    /\ UNCHANGED nextVal

TryReceive(c) ==
    /\ SetWorld(TryReceiveOp(World, c))
    /\ UNCHANGED nextVal

Close(c) ==
    /\ SetWorld(CloseOp(World, c))
    /\ UNCHANGED nextVal

InitChannels(caps) ==
    /\ ch = [c \in Chans |-> NewChannel(caps[c])]
    /\ sends = <<>>
    /\ recvs = <<>>
    /\ delivered = [c \in Chans |-> <<>>]
    /\ ret = Returned("new", 1, Undefined, FALSE)
    /\ sels = <<>>
    /\ nextVal = 1

\* ------------------------------------------------------------------ select
\* The cases a caller may pass: receive(c), send(c, value) and default_().
CaseKinds ==
    [type : {"receive", "send"}, channel : Chans] \cup {[type |-> "default", channel |-> 0]}

RECURSIVE SeqsUpTo(_, _)
SeqsUpTo(S, n) ==
    IF n = 0 THEN {<<>>}
    ELSE LET shorter == SeqsUpTo(S, n - 1)
         IN  shorter \cup {Append(q, x) : q \in {t \in shorter : Len(t) = n - 1}, x \in S}

\* The cases of one type in listing order, each with its place in the list
\* (the classification loop of select).
CasesOfType(cases, type) ==
    SelectSeq([i \in 1..Len(cases) |-> [idx |-> i, type |-> cases[i].type,
                                         channel |-> cases[i].channel]],
              LAMBDA x : x.type = type)

\* for (const case_ of receiveCases) promises.push(case_.channel.receive().then(...))
\* r.w is the world after the calls, r.ops the promises pushed so far.
RECURSIVE PushReceives(_, _, _)
PushReceives(r, s, receiveCases) ==
    IF receiveCases = <<>>
    THEN r
    ELSE LET case_ == Head(receiveCases)
             w1 == ReceiveOp(r.w, case_.channel)
             id == Len(w1.recvs)
             op == [idx |-> case_.idx, type |-> "receive", channel |-> case_.channel,
                    promise |-> id, immediate |-> w1.recvs[id].state # "pending"]
             w2 == [w1 EXCEPT !.recvs[id].sel = s, !.recvs[id].op = Len(r.ops) + 1]
         IN  PushReceives([w |-> w2, ops |-> Append(r.ops, op)], s, Tail(receiveCases))

\* for (const case_ of sendCases) promises.push(case_.channel.send(case_.value).then(...))
RECURSIVE PushSends(_, _, _, _)
PushSends(r, s, sendCases, value) ==
    IF sendCases = <<>>
    THEN r
    ELSE LET case_ == Head(sendCases)
             w1 == SendOp(r.w, case_.channel, value)
             id == Len(w1.sends)
             op == [idx |-> case_.idx, type |-> "send", channel |-> case_.channel,
                    promise |-> id, immediate |-> w1.sends[id].state # "pending"]
             w2 == [w1 EXCEPT !.sends[id].sel = s, !.sends[id].op = Len(r.ops) + 1]
         IN  PushSends([w |-> w2, ops |-> Append(r.ops, op)], s, Tail(sendCases), value + 1)

\* The promise that wins Promise.race among those already settled when the
\* synchronous part of select ends: the reactions of promises settled by the
\* return of their own call are queued in the order of the array.  0: none.
FirstImmediate(ops) ==
    IF \E k \in 1..Len(ops) : ops[k].immediate
    THEN CHOOSE k \in 1..Len(ops) : ops[k].immediate /\ \A j \in 1..(k - 1) : ~ops[j].immediate
    ELSE 0

SelectRecord(cases, ops, state, winner, ran) ==
    [cases |-> cases, ops |-> ops, state |-> state, winner |-> winner, ran |-> ran]

\* select without the return that ends the fast path of the default case.
SelectOpNoReturn(w, cases, value) ==
    LET s == Len(w.sels) + 1
        receiveCases == CasesOfType(cases, "receive")
        sendCases == CasesOfType(cases, "send")
        defaultCases == CasesOfType(cases, "default")
        threw == [w EXCEPT !.sels = Append(@, SelectRecord(cases, <<>>, "threw", 0, <<>>))]
        hasReadyOperation ==
            \/ \E i \in 1..Len(receiveCases) : HasData(w, receiveCases[i].channel)
            \/ \E i \in 1..Len(sendCases) : CanSend(w, sendCases[i].channel)
        r1 == PushReceives([w |-> w, ops |-> <<>>], s, receiveCases)
        r2 == PushSends(r1, s, sendCases, value)
        ran == IF Len(defaultCases) = 1 /\ ~hasReadyOperation
               THEN <<defaultCases[1].idx>> ELSE <<>>
    IN  IF Len(cases) = 0 \/ Len(defaultCases) > 1
        THEN threw
        ELSE [r2.w EXCEPT !.sels = Append(@, SelectRecord(cases, r2.ops, "racing",
                                                          FirstImmediate(r2.ops), ran))]

\* select that creates the racing promises before it tests for the fast path
\* of the default case.
SelectOpEagerCalls(w, cases, value) ==
    LET s == Len(w.sels) + 1
        receiveCases == CasesOfType(cases, "receive")
        sendCases == CasesOfType(cases, "send")
        defaultCases == CasesOfType(cases, "default")
        threw == [w EXCEPT !.sels = Append(@, SelectRecord(cases, <<>>, "threw", 0, <<>>))]
        hasReadyOperation ==
            \/ \E i \in 1..Len(receiveCases) : HasData(w, receiveCases[i].channel)
            \/ \E i \in 1..Len(sendCases) : CanSend(w, sendCases[i].channel)
        r1 == PushReceives([w |-> w, ops |-> <<>>], s, receiveCases)
        r2 == PushSends(r1, s, sendCases, value)
    IN  IF Len(cases) = 0 \/ Len(defaultCases) > 1
        THEN threw
        ELSE IF Len(defaultCases) = 1 /\ ~hasReadyOperation
        THEN [r2.w EXCEPT !.sels = Append(@, SelectRecord(cases, <<>>, "returned", 0,
                                                               <<defaultCases[1].idx>>))]
        ELSE [r2.w EXCEPT !.sels = Append(@, SelectRecord(cases, r2.ops, "racing",
                                                          FirstImmediate(r2.ops), <<>>))]

\* select(cases), up to its await: validation, classification, the fast path
\* of the default case, and the calls that create the racing promises.
SelectOp(w, cases, value) ==
    LET s == Len(w.sels) + 1
        receiveCases == CasesOfType(cases, "receive")
        sendCases == CasesOfType(cases, "send")
        defaultCases == CasesOfType(cases, "default")
        threw == [w EXCEPT !.sels = Append(@, SelectRecord(cases, <<>>, "threw", 0, <<>>))]
        hasReadyOperation ==
            \/ \E i \in 1..Len(receiveCases) : HasData(w, receiveCases[i].channel)
            \/ \E i \in 1..Len(sendCases) : CanSend(w, sendCases[i].channel)
        r1 == PushReceives([w |-> w, ops |-> <<>>], s, receiveCases)
        r2 == PushSends(r1, s, sendCases, value)
    IN  IF Len(cases) = 0 \/ Len(defaultCases) > 1
        THEN threw
        ELSE IF Len(defaultCases) = 1 /\ ~hasReadyOperation
        THEN [w EXCEPT !.sels = Append(@, SelectRecord(cases, <<>>, "returned", 0,
                                                            <<defaultCases[1].idx>>))]
        ELSE [r2.w EXCEPT !.sels = Append(@, SelectRecord(cases, r2.ops, "racing",
                                                          FirstImmediate(r2.ops), <<>>))]

\* select that, after its await, takes the operations of the losing cases off
\* the queues of their channels before it runs the action of the winner.
SelectResumeCancelsLosers(w, s) ==
    LET sl == w.sels[s]
        op == sl.ops[sl.winner]
        recvIds == {sl.ops[k].promise : k \in {j \in 1..Len(sl.ops) : sl.ops[j].type = "receive"}}
        sendIds == {sl.ops[k].promise : k \in {j \in 1..Len(sl.ops) : sl.ops[j].type = "send"}}
        w1 == [w EXCEPT !.ch = [c \in Chans |->
                  [w.ch[c] EXCEPT
                      !.receiveWaiters = SelectSeq(@, LAMBDA x : x.resolve \notin recvIds),
                      !.sendWaiters = SelectSeq(@, LAMBDA x : x.resolve \notin sendIds)]]]
    IN  IF op.type = "send" /\ w.sends[op.promise].state = "rejected"
        THEN [w1 EXCEPT !.sels[s].state = "threw"]
        ELSE [w1 EXCEPT !.sels[s].state = "returned",
                        !.sels[s].ran = Append(@, op.idx)]

\* select(cases), after its await: the action of the case whose promise won
\* the race runs; a rejected winner makes select throw instead.
SelectResume(w, s) ==
    LET sl == w.sels[s]
        op == sl.ops[sl.winner]
    IN  IF op.type = "send" /\ w.sends[op.promise].state = "rejected"
        THEN [w EXCEPT !.sels[s].state = "threw"]
        ELSE [w EXCEPT !.sels[s].state = "returned",
                       !.sels[s].ran = Append(@, op.idx)]

Select(cases) ==
    LET nSends == Len(CasesOfType(cases, "send"))
        nRecvs == Len(CasesOfType(cases, "receive"))
    IN  /\ sels = <<>>
        /\ nextVal + nSends <= MaxVals + 1
        /\ Len(recvs) + nRecvs <= MaxRecvs
        /\ SetWorld(SelectOp(World, cases, nextVal))
        /\ nextVal' = nextVal + nSends

SelectContinue(s) ==
    /\ sels[s].state = "racing"
    /\ sels[s].winner # 0
    /\ SetWorld(SelectResume(World, s))
    /\ UNCHANGED nextVal

\* ================================================================ contexts
\* src/src/context/context.ts.  A context is an entry of ctxs; entry 1 is the
\* background context.  The callbacks registered with then/finally run as
\* microtasks: jobs is the microtask queue of the runtime, first in first out.

\* Contexts created in one behaviour, the background context included.
MaxCtx == 3

\* Error values.  src tells the instances of one class apart: the context
\* whose cancel function, timer or signal created the error, or the number of
\* an error made by the caller.
NoError == [name |-> "undefined", src |-> 0]
ContextCancelledError(c) == [name |-> "ContextCancelledError", src |-> c]
ContextTimeoutError(c) == [name |-> "ContextTimeoutError", src |-> c]
CallerError(k) == [name |-> "Error", src |-> k]
\* The reason of abort() called without an argument (a DOMException, an Error).
AbortError(c) == [name |-> "AbortError", src |-> c]
\* A reason or rejection value that is not an Error.
NotAnError == [name |-> "string", src |-> 0]
\* new Error(String(reason))
WrappedError(c) == [name |-> "Error(String(reason))", src |-> c]

IsError(v) == v # NoError /\ v # NotAnError

NoSignal == [aborted |-> FALSE, reason |-> NoError, listener |-> FALSE]

\* The callbacks given to afterFunc, by what a call of them does: it returns
\* undefined, throws, or returns a promise that fulfils or rejects.
FnKinds == {"returns", "throws", "fulfils", "rejects"}

\* #fn is undefined
NoFn == "undefined"

\* The fields of a DefaultContext (#err, #donePromise with #resolve and the
\* callbacks waiting on it) and what its derive function attached to it.
ContextRecord(kind, parent) ==
    [ kind      |-> kind,
      parent    |-> parent,
      err       |-> NoError,
      done      |-> "none",      \* none: no #donePromise yet; pending; resolved
      reactions |-> <<>>,
      timer     |-> "none",      \* none, armed, cleared, fired
      signal    |-> NoSignal,
      promise   |-> "none",      \* none, pending, settled
      fn        |-> NoFn,        \* #fn of an AfterFuncContext
      executed  |-> FALSE,       \* #executed of an AfterFuncContext
      calls     |-> 0,           \* the number of times fn was invoked
      unhandled |-> FALSE,       \* a promise rejected with no handler
      stops     |-> <<>> ]       \* what the calls of stop() returned

CtxWorld == [ctxs |-> ctxs, jobs |-> jobs]

SetCtxWorld(w) == ctxs' = w.ctxs /\ jobs' = w.jobs /\ UNCHANGED <<chanVars, syncVars>>

Job(type, c, value) == [type |-> type, ctx |-> c, value |-> value]

\* DefaultContext.done()
DoneOp(w, c) ==
    IF w.ctxs[c].done # "none"
    THEN w
    ELSE IF w.ctxs[c].err # NoError
    THEN [w EXCEPT !.ctxs[c].done = "resolved"]
    ELSE [w EXCEPT !.ctxs[c].done = "pending"]

\* c.done().then(job) / c.done().finally(job): the callback is queued as a
\* microtask at once when the promise is resolved, and else waits on it.
ThenOp(w, c, job) ==
    LET w1 == DoneOp(w, c) IN
    IF w1.ctxs[c].done = "resolved"
    THEN [w1 EXCEPT !.jobs = Append(@, job)]
    ELSE [w1 EXCEPT !.ctxs[c].reactions = Append(@, job)]

\* cancel without its first line: the last call wins.
CancelOpLastWins(w, c, err) ==
    LET w1 == [w EXCEPT !.ctxs[c].err = err] IN
    IF w.ctxs[c].done = "pending"
    THEN [w1 EXCEPT !.ctxs[c].done = "resolved",
                    !.ctxs[c].reactions = <<>>,
                    !.jobs = @ \o w.ctxs[c].reactions]
    ELSE [w1 EXCEPT !.ctxs[c].done = "resolved"]

\* cancel that hands the error to the parent of the context as well.
CancelOpUpward(w, c, err) ==
    LET cancelled(w0, x) ==
            LET w1 == [w0 EXCEPT !.ctxs[x].err = err] IN
            IF w0.ctxs[x].done = "pending"
            THEN [w1 EXCEPT !.ctxs[x].done = "resolved",
                            !.ctxs[x].reactions = <<>>,
                            !.jobs = @ \o w0.ctxs[x].reactions]
            ELSE [w1 EXCEPT !.ctxs[x].done = "resolved"]
        p == w.ctxs[c].parent
    IN  IF w.ctxs[c].err # NoError
        THEN w
        ELSE IF p > 0 /\ w.ctxs[p].err = NoError
        THEN cancelled(cancelled(w, c), p)
        ELSE cancelled(w, c)

\* DefaultContext.cancel(err), called with one argument (every caller in the
\* file passes one); err = NoError is the explicit undefined.
CancelOp(w, c, err) ==
    IF w.ctxs[c].err # NoError
    THEN w
    ELSE LET w1 == [w EXCEPT !.ctxs[c].err = err] IN
         IF w.ctxs[c].done = "pending"
         THEN [w1 EXCEPT !.ctxs[c].done = "resolved",
                         !.ctxs[c].reactions = <<>>,
                         !.jobs = @ \o w.ctxs[c].reactions]
         ELSE [w1 EXCEPT !.ctxs[c].done = "resolved"]

\* The constructor without the synchronous test of parent.err(): the error of
\* the parent always arrives through parent.done().then(...).
NewContextAsyncOnly(w, kind, parent) ==
    LET c == Len(w.ctxs) + 1
        w1 == [w EXCEPT !.ctxs = Append(@, ContextRecord(kind, parent))]
    IN  ThenOp(w1, parent, Job("propagate", c, NoError))

\* The constructor without parent.done().then(...): a child adopts the error
\* of its parent only at construction.
NewContextSyncOnly(w, kind, parent) ==
    LET c == Len(w.ctxs) + 1
        w1 == [w EXCEPT !.ctxs = Append(@, ContextRecord(kind, parent))]
        parentErr == w.ctxs[parent].err
    IN  IF parentErr # NoError
        THEN CancelOp(w1, c, parentErr)
        ELSE w1

\* new DefaultContext(parent), followed by what the derive function sets.
NewContext(w, kind, parent) ==
    LET c == Len(w.ctxs) + 1
        w1 == [w EXCEPT !.ctxs = Append(@, ContextRecord(kind, parent))]
        parentErr == w.ctxs[parent].err
    IN  IF parentErr # NoError
        THEN CancelOp(w1, c, parentErr)
        ELSE ThenOp(w1, parent, Job("propagate", c, NoError))

\* onAbort of watchSignal / withAbort
OnAbort(w, c) ==
    LET reason == w.ctxs[c].signal.reason IN
    CancelOp(w, c, IF IsError(reason) THEN reason ELSE ContextCancelledError(c))

\* abort(reason) on the signal of context c: the first call sets the reason
\* and dispatches the abort event to the listener, which was added with once.
AbortOp(w, c, reason) ==
    IF w.ctxs[c].signal.aborted
    THEN w
    ELSE LET w1 == [w EXCEPT !.ctxs[c].signal.aborted = TRUE,
                             !.ctxs[c].signal.reason =
                                 IF reason = NoError THEN AbortError(c) ELSE reason,
                             !.ctxs[c].signal.listener = FALSE]
         IN  IF w.ctxs[c].signal.listener THEN OnAbort(w1, c) ELSE w1

\* withCancel(parent) and withCancelCause(parent)
WithCancelOp(w, kind, parent) == NewContext(w, kind, parent)

\* withTimeout without context.done().finally(() => clearTimeout(id)).
WithTimeoutOpNoClear(w, parent) ==
    LET c == Len(w.ctxs) + 1
        w1 == NewContext(w, "withTimeout", parent)
    IN  [w1 EXCEPT !.ctxs[c].timer = "armed"]

\* withTimeout(parent, timeoutMs)
WithTimeoutOp(w, parent) ==
    LET c == Len(w.ctxs) + 1
        w1 == NewContext(w, "withTimeout", parent)
        w2 == [w1 EXCEPT !.ctxs[c].timer = "armed"]
    IN  ThenOp(w2, c, Job("clearTimeout", c, NoError))

\* watchSignal(parent, signal); signal is the state of the signal passed.
WatchSignalOp(w, parent, signal) ==
    LET c == Len(w.ctxs) + 1
        w1 == NewContext(w, "watchSignal", parent)
        w2 == [w1 EXCEPT !.ctxs[c].signal = signal]
    IN  IF signal.aborted
        THEN OnAbort(w2, c)
        ELSE ThenOp([w2 EXCEPT !.ctxs[c].signal.listener = TRUE], c,
                    Job("removeEventListener", c, NoError))

\* withAbort that registers the abort of the controller before the removal
\* of the listener.
WithAbortOpAbortFirst(w, parent) ==
    LET c == Len(w.ctxs) + 1
        w1 == NewContext(w, "withAbort", parent)
        w2 == [w1 EXCEPT !.ctxs[c].signal.listener = TRUE]
        w3 == ThenOp(w2, c, Job("abort", c, NoError))
    IN  ThenOp(w3, c, Job("removeEventListener", c, NoError))

\* withAbort(parent)
WithAbortOp(w, parent) ==
    LET c == Len(w.ctxs) + 1
        w1 == NewContext(w, "withAbort", parent)
        w2 == [w1 EXCEPT !.ctxs[c].signal.listener = TRUE]
        w3 == ThenOp(w2, c, Job("removeEventListener", c, NoError))
    IN  ThenOp(w3, c, Job("abort", c, NoError))

\* watchPromise(parent, promise); outcome is NoError while the promise is
\* pending, "fulfilled" or the rejection value when it has settled already.
Fulfilled == [name |-> "fulfilled", src |-> 0]

WatchPromiseOp(w, parent, outcome) ==
    LET c == Len(w.ctxs) + 1
        w1 == NewContext(w, "watchPromise", parent)
    IN  IF outcome = NoError
        THEN [w1 EXCEPT !.ctxs[c].promise = "pending"]
        ELSE [w1 EXCEPT !.ctxs[c].promise = "settled",
                        !.jobs = Append(@, Job("settled", c, outcome))]

\* AfterFuncContext.#executeFunc().  A throw of fn leaves #executeFunc and the
\* then callback that called it: the promise made by then is rejected, and
\* nothing handles it.  A promise returned by fn gets a catch handler.
ExecuteFuncOp(w, c) ==
    IF w.ctxs[c].executed \/ w.ctxs[c].fn = NoFn
    THEN w
    ELSE [w EXCEPT !.ctxs[c].executed = TRUE,
                   !.ctxs[c].fn = NoFn,
                   !.ctxs[c].calls = @ + 1,
                   !.ctxs[c].unhandled = (w.ctxs[c].fn = "throws")]

\* stop with the tests only: it reports success and leaves the function set.
StopOpNoMark(w, c) ==
    IF w.ctxs[c].executed \/ w.ctxs[c].fn = NoFn
    THEN [w EXCEPT !.ctxs[c].stops = Append(@, FALSE)]
    ELSE [w EXCEPT !.ctxs[c].stops = Append(@, TRUE)]

\* AfterFuncContext.stop(); the value returned is appended to stops.
StopOp(w, c) ==
    IF w.ctxs[c].executed \/ w.ctxs[c].fn = NoFn
    THEN [w EXCEPT !.ctxs[c].stops = Append(@, FALSE)]
    ELSE [w EXCEPT !.ctxs[c].executed = TRUE,
                   !.ctxs[c].fn = NoFn,
                   !.ctxs[c].stops = Append(@, TRUE)]

\* afterFunc that calls the function at once instead of waiting for the parent.
AfterFuncOpEager(w, parent, fn) ==
    LET c == Len(w.ctxs) + 1
        w1 == NewContext(w, "afterFunc", parent)
    IN  ExecuteFuncOp([w1 EXCEPT !.ctxs[c].fn = fn], c)

\* afterFunc(parent, fn): new AfterFuncContext(parent, fn)
AfterFuncOp(w, parent, fn) ==
    LET c == Len(w.ctxs) + 1
        w1 == NewContext(w, "afterFunc", parent)
        w2 == [w1 EXCEPT !.ctxs[c].fn = fn]
    IN  ThenOp(w2, parent, Job("executeFunc", c, NoError))

\* The callbacks, with a rejection callback of watchPromise that passes the
\* rejection value on as it is.
RunJobOpNoWrap(w, job) ==
    LET c == job.ctx IN
    CASE job.type = "propagate" ->
            CancelOp(w, c, w.ctxs[w.ctxs[c].parent].err)
      [] job.type = "clearTimeout" ->
            [w EXCEPT !.ctxs[c].timer = IF @ = "armed" THEN "cleared" ELSE @]
      [] job.type = "removeEventListener" ->
            [w EXCEPT !.ctxs[c].signal.listener = FALSE]
      [] job.type = "abort" ->
            AbortOp(w, c, w.ctxs[c].err)
      [] job.type = "executeFunc" ->
            ExecuteFuncOp(w, c)
      [] job.type = "settled" ->
            IF job.value = Fulfilled THEN CancelOp(w, c, NoError)
            ELSE CancelOp(w, c, job.value)

\* A microtask runs: the callback of one then/finally.
RunJobOp(w, job) ==
    LET c == job.ctx IN
    CASE job.type = "propagate" ->
            \* this.cancel(parent.err())
            CancelOp(w, c, w.ctxs[w.ctxs[c].parent].err)
      [] job.type = "clearTimeout" ->
            [w EXCEPT !.ctxs[c].timer = IF @ = "armed" THEN "cleared" ELSE @]
      [] job.type = "removeEventListener" ->
            [w EXCEPT !.ctxs[c].signal.listener = FALSE]
      [] job.type = "abort" ->
            \* ac.abort(context.err())
            AbortOp(w, c, w.ctxs[c].err)
      [] job.type = "executeFunc" ->
            ExecuteFuncOp(w, c)
      [] job.type = "settled" ->
            \* the two callbacks of promise.then in watchPromise
            IF job.value = Fulfilled THEN CancelOp(w, c, NoError)
            ELSE CancelOp(w, c, IF IsError(job.value) THEN job.value ELSE WrappedError(c))

\* ------------------------------------------------ the callers of a context
Derive(parent) ==
    /\ Len(ctxs) < MaxCtx
    /\ \/ SetCtxWorld(WithCancelOp(CtxWorld, "withCancel", parent))
       \/ SetCtxWorld(WithCancelOp(CtxWorld, "withCancelCause", parent))
       \/ SetCtxWorld(WithTimeoutOp(CtxWorld, parent))
       \/ SetCtxWorld(WithAbortOp(CtxWorld, parent))
       \/ \E signal \in {NoSignal,
                         [aborted |-> TRUE, reason |-> CallerError(1), listener |-> FALSE],
                         [aborted |-> TRUE, reason |-> NotAnError, listener |-> FALSE]} :
              SetCtxWorld(WatchSignalOp(CtxWorld, parent, signal))
       \/ \E outcome \in {NoError, Fulfilled, CallerError(2), NotAnError} :
              SetCtxWorld(WatchPromiseOp(CtxWorld, parent, outcome))

\* The CancelFunc returned by withCancel.
CallCancel(c) ==
    /\ ctxs[c].kind = "withCancel"
    /\ SetCtxWorld(CancelOp(CtxWorld, c, ContextCancelledError(c)))

\* The CancelCauseFunc returned by withCancelCause.
CallCancelCause(c, err) ==
    /\ ctxs[c].kind = "withCancelCause"
    /\ SetCtxWorld(CancelOp(CtxWorld, c, err))

\* A caller awaits c.done().
CallDone(c) == SetCtxWorld(DoneOp(CtxWorld, c))

\* The signal given to watchSignal is aborted by its owner, or the caller
\* aborts the controller that withAbort returned.
CallAbort(c, reason) ==
    /\ ctxs[c].kind \in {"watchSignal", "withAbort"}
    /\ SetCtxWorld(AbortOp(CtxWorld, c, reason))

\* The promise given to watchPromise settles.
PromiseSettles(c, outcome) ==
    /\ ctxs[c].promise = "pending"
    /\ SetCtxWorld([CtxWorld EXCEPT !.ctxs[c].promise = "settled",
                                     !.jobs = Append(@, Job("settled", c, outcome))])

\* The timer of withTimeout expires: a task of the event loop, which runs
\* only when the microtask queue is empty.
TimerFires(c) ==
    /\ ctxs[c].timer = "armed"
    /\ jobs = <<>>
    /\ SetCtxWorld(CancelOp([CtxWorld EXCEPT !.ctxs[c].timer = "fired"], c,
                            ContextTimeoutError(c)))

RunJob ==
    /\ jobs # <<>>
    /\ SetCtxWorld(RunJobOp([CtxWorld EXCEPT !.jobs = Tail(@)], Head(jobs)))

\* ---------------------------------------------- the callers of afterFunc
\* Contexts created in one behaviour of the afterFunc specification, and the
\* calls of one stop function.
MaxAfterCtx == 4
MaxStops == 2

\* The parents the callers of afterFunc derive: withCancelCause(parent).
DeriveCause(parent) ==
    /\ Len(ctxs) < MaxAfterCtx
    /\ ctxs[parent].kind # "afterFunc"
    /\ SetCtxWorld(WithCancelOp(CtxWorld, "withCancelCause", parent))

\* afterFunc returns the stop function only: its context is the parent of none.
CallAfterFunc(parent, fn) ==
    /\ Len(ctxs) < MaxAfterCtx
    /\ ctxs[parent].kind # "afterFunc"
    /\ SetCtxWorld(AfterFuncOp(CtxWorld, parent, fn))

\* The function returned by afterFunc is called.
CallStop(c) ==
    /\ ctxs[c].kind = "afterFunc"
    /\ Len(ctxs[c].stops) < MaxStops
    /\ SetCtxWorld(StopOp(CtxWorld, c))

\* ==================================================================== Once
\* Once (once.ts).  The k-th call of do() passes the function k, which returns
\* the value k or throws the error k, so that the outcomes tell whose function
\* ran.  once.calls are the calls of do() in the order they were made.
MaxDo == 4

\* What the function passed to do() does when it is invoked: it returns a
\* value (at once or after awaiting), throws before its first await, rejects
\* after awaiting, or calls do() of the same Once and awaits that call,
\* either before its first await or after one.
FBehaviours == {"returns", "throws", "rejects", "reenterSync", "reenterAsync"}

NoPromise == [status |-> "unset", value |-> Undefined]

NoF == [pc |-> "none", id |-> 0, behaviour |-> "returns", inner |-> 0]

NewOnce ==
    [ state   |-> 0,            \* #state: 0 not started, 1 running, 2 done
      promise |-> NoPromise,    \* #promise: unset, pending, fulfilled, rejected
      f       |-> NoF,          \* where the function invoked by do() stands
      calls   |-> <<>>,
      invoked |-> <<>> ]        \* the functions invoked, in order

\* One call of do(): the function passed, whether the call was made from within
\* the function that do() runs, #state at the call, what the call returned
\* (#promise, or undefined when #promise was not assigned yet) and how the
\* promise of the call has settled.
DoCall(k, inner, state, returned) ==
    [ f |-> k, inner |-> inner, stateAtCall |-> state, returned |-> returned,
      status |-> IF returned = "undefined" THEN "fulfilled" ELSE "pending",
      value |-> Undefined ]

\* The end of the async function with a finally that marks the Once done only
\* when f succeeded, and as not started when f failed.
FinallyOpRetryOnError(o, status, value) ==
    [o EXCEPT !.state = IF status = "rejected" THEN 0 ELSE 2,
              !.promise = [status |-> status, value |-> value],
              !.f.pc = "finished"]

\* The async function that do() starts, from the return of f to its end:
\* finally sets #state = 2 and the promise of the function settles.  A throw
\* of f before its first await runs this inside the call of do().
FinallyOp(o, status, value) ==
    [o EXCEPT !.state = 2,
              !.promise = [status |-> status, value |-> value],
              !.f.pc = "finished"]

RECURSIVE DoOp(_, _, _)
RECURSIVE InvokeF(_, _, _)

\* f() inside the async function of do(), up to the first suspension.
InvokeF(o, k, behaviour) ==
    LET o1 == [o EXCEPT !.invoked = Append(@, k),
                        !.f = [pc |-> "running", id |-> k, behaviour |-> behaviour,
                               inner |-> 0]]
    IN  CASE behaviour = "throws" -> FinallyOp(o1, "rejected", k)
          [] behaviour = "reenterSync" ->
                LET o2 == DoOp(o1, "returns", TRUE)
                IN  [o2 EXCEPT !.f.pc = "awaitInner", !.f.inner = Len(o2.calls)]
          [] behaviour = "reenterAsync" -> [o1 EXCEPT !.f.pc = "beforeInner"]
          [] OTHER -> o1

\* Once.do(f), up to its return.
DoOp(o, behaviour, inner) ==
    LET k == Len(o.calls) + 1 IN
    IF o.state = 2
    THEN [o EXCEPT !.calls = Append(@, DoCall(k, inner, 2, "promise"))]
    ELSE IF o.state = 0
    THEN LET o1 == [o EXCEPT !.state = 1,
                             !.calls = Append(@, DoCall(k, inner, 0, "promise"))]
             o2 == InvokeF(o1, k, behaviour)
         IN  \* this.#promise = (the promise of the async function)
             [o2 EXCEPT !.promise.status = IF @ = "unset" THEN "pending" ELSE @]
    ELSE [o EXCEPT !.calls = Append(@,
              DoCall(k, inner, 1,
                     IF o.promise.status = "unset" THEN "undefined" ELSE "promise"))]

\* The promise of a call of do() settles with the outcome of the function
\* passed to that call instead of the outcome memoized in #promise.
SettleOpOwnOutcome(o, i) ==
    [o EXCEPT !.calls[i].status = o.promise.status,
              !.calls[i].value = o.calls[i].f]

\* The promise of a call of do() follows the #promise that the call returned.
SettleOp(o, i) ==
    [o EXCEPT !.calls[i].status = o.promise.status,
              !.calls[i].value = o.promise.value]

\* ------------------------------------------------- the callers of a Once
SetOnce(o) == once' = o /\ UNCHANGED <<chanVars, ctxVars, condVars, wgVars>>

\* A task calls do() with a function of its own.
Do(behaviour) ==
    /\ Len(once.calls) + (IF behaviour \in {"reenterSync", "reenterAsync"} THEN 2 ELSE 1)
           <= MaxDo
    /\ SetOnce(DoOp(once, behaviour, FALSE))

\* The function, resumed after its first await, calls do() and awaits it.
FReenters ==
    /\ once.f.pc = "beforeInner"
    /\ LET o == DoOp(once, "returns", TRUE)
       IN  SetOnce([o EXCEPT !.f.pc = "awaitInner", !.f.inner = Len(o.calls)])

\* The function returns or rejects; it does so only when the call of do() it
\* awaits has settled.
FCompletes ==
    /\ \/ once.f.pc = "running"
       \/ once.f.pc = "awaitInner" /\ once.calls[once.f.inner].status # "pending"
    /\ SetOnce(FinallyOp(once,
                         IF once.f.behaviour = "rejects" THEN "rejected" ELSE "fulfilled",
                         once.f.id))

SettleCall(i) ==
    /\ once.calls[i].status = "pending"
    /\ once.calls[i].returned = "promise"
    /\ once.promise.status \in {"fulfilled", "rejected"}
    /\ SetOnce(SettleOp(once, i))

InitOnce == once = NewOnce

\* =========================================================== Mutex and Cond
\* Tasks share one Mutex and the Cond built on it.  A task is a piece of
\* asynchronous code: it runs until it awaits, and its continuation runs as a
\* microtask once the promise it awaits has resolved.
MaxTasks == 3

Tasks == 1..MaxTasks

\* pc of a task:
\*   "idle"      it does not hold the mutex and is in no call
\*   "acquired"  lock() took the free mutex; the continuation has not run yet
\*   "granted"   unlock() passed the mutex to it; the continuation has not run
\*   "queued"    lock() found the mutex held and suspended
\*   "held"      it runs with the mutex held
\*   "waiting"   wait() pushed its waiter on #waiters and suspended
\*   "signalled" its waiter was handed to setTimeout
\*   "woken"     its waiter ran; wait() has not yet resumed
\* inWait: it is inside wait().  woken: what took its waiter off #waiters in
\* its last wait().  last: what its last tryLock() returned, or "wait" when the
\* last call it returned from is wait().
NewTask == [pc |-> "idle", inWait |-> FALSE, woken |-> "no", last |-> "none"]

NewMutex == [locked |-> FALSE, queue |-> <<>>]

CondWorld == [mutex |-> mutex, waiters |-> condWaiters, tasks |-> tasks,
              microtasks |-> microtasks, timers |-> timers, running |-> running]

SetCond(w) ==
    /\ mutex' = w.mutex
    /\ condWaiters' = w.waiters
    /\ tasks' = w.tasks
    /\ microtasks' = w.microtasks
    /\ timers' = w.timers
    /\ running' = w.running
    /\ UNCHANGED <<chanVars, ctxVars, once, wgVars>>

\* The tasks that own the mutex.
Holders(ts) == {t \in Tasks : ts[t].pc \in {"acquired", "granted", "held"}}

\* lock(): immediate if Unlocked, else FIFO-enqueue and suspend.
LockOp(w, t) ==
    IF ~w.mutex.locked
    THEN [w EXCEPT !.mutex.locked = TRUE,
                   !.tasks[t].pc = "acquired",
                   !.microtasks = Append(@, t)]
    ELSE [w EXCEPT !.mutex.queue = Append(@, t),
                   !.tasks[t].pc = "queued"]

\* tryLock(): non-blocking, false if held.
TryLockOp(w, t) ==
    IF ~w.mutex.locked
    THEN [w EXCEPT !.mutex.locked = TRUE,
                   !.tasks[t].pc = "held",
                   !.tasks[t].last = "true"]
    ELSE [w EXCEPT !.tasks[t].last = "false"]

\* unlock() that wakes the pending acquirer that arrived last.
UnlockOpLifo(w) ==
    IF w.mutex.queue # <<>>
    THEN LET n == w.mutex.queue[Len(w.mutex.queue)]
         IN  [w EXCEPT !.mutex.queue = SubSeq(@, 1, Len(@) - 1),
                       !.tasks[n].pc = "granted",
                       !.microtasks = Append(@, n)]
    ELSE [w EXCEPT !.mutex.locked = FALSE]

\* unlock() that wakes the next pending acquirer and marks the mutex Unlocked
\* as well, so that the woken acquirer owns a mutex anyone can take.
UnlockOpMarksUnlocked(w) ==
    IF w.mutex.queue # <<>>
    THEN LET n == Head(w.mutex.queue)
         IN  [w EXCEPT !.mutex.queue = Tail(@),
                       !.mutex.locked = FALSE,
                       !.tasks[n].pc = "granted",
                       !.microtasks = Append(@, n)]
    ELSE [w EXCEPT !.mutex.locked = FALSE]

\* unlock(): wake the next FIFO waiter (ownership transfers directly), else
\* mark Unlocked.
UnlockOp(w) ==
    IF w.mutex.queue # <<>>
    THEN LET n == Head(w.mutex.queue)
         IN  [w EXCEPT !.mutex.queue = Tail(@),
                       !.tasks[n].pc = "granted",
                       !.microtasks = Append(@, n)]
    ELSE [w EXCEPT !.mutex.locked = FALSE]

\* wait() up to its first await: this.#mutex.unlock(), then the executor of
\* the new promise pushes the waiter; all of it runs synchronously.
WaitOp(w, t) ==
    LET w1 == UnlockOp(w)
    IN  [w1 EXCEPT !.waiters = Append(@, t),
                   !.tasks[t] = [pc |-> "waiting", inWait |-> TRUE,
                                 woken |-> "no", last |-> "none"]]

\* signal() that takes the waiter pushed last.
SignalOpLifo(w) ==
    IF Len(w.waiters) > 0
    THEN LET n == w.waiters[Len(w.waiters)]
         IN  [w EXCEPT !.waiters = SubSeq(@, 1, Len(@) - 1),
                       !.timers = Append(@, n),
                       !.tasks[n].pc = "signalled",
                       !.tasks[n].woken = "signal"]
    ELSE w

\* signal() that calls the waiter itself instead of handing it to setTimeout:
\* the promise wait() awaits is resolved inside signal().
SignalOpImmediate(w) ==
    IF Len(w.waiters) > 0
    THEN LET n == Head(w.waiters)
         IN  [w EXCEPT !.waiters = Tail(@),
                       !.microtasks = Append(@, n),
                       !.tasks[n].pc = "woken",
                       !.tasks[n].woken = "signal"]
    ELSE w

\* signal() that reads the first waiter and leaves it on #waiters ([0] for
\* shift()).
SignalOpKeepsWaiter(w) ==
    IF Len(w.waiters) > 0
    THEN LET n == Head(w.waiters)
         IN  [w EXCEPT !.timers = Append(@, n),
                       !.tasks[n].pc = "signalled",
                       !.tasks[n].woken = "signal"]
    ELSE w

\* signal(): #waiters.shift() and setTimeout(waiter, 0).
SignalOp(w) ==
    IF Len(w.waiters) > 0
    THEN LET n == Head(w.waiters)
         IN  [w EXCEPT !.waiters = Tail(@),
                       !.timers = Append(@, n),
                       !.tasks[n].pc = "signalled",
                       !.tasks[n].woken = "signal"]
    ELSE w

\* broadcast() that reads #waiters and leaves it as it is (slice for splice).
BroadcastOpKeepsWaiters(w) ==
    IF Len(w.waiters) > 0
    THEN [w EXCEPT !.timers = @ \o w.waiters,
                   !.tasks = [t \in Tasks |->
                       IF \E i \in 1..Len(w.waiters) : w.waiters[i] = t
                       THEN [w.tasks[t] EXCEPT !.pc = "signalled", !.woken = "broadcast"]
                       ELSE w.tasks[t]]]
    ELSE w

\* broadcast(): #waiters.splice(0) and setTimeout(waiter, 0) for each, in order.
BroadcastOp(w) ==
    IF Len(w.waiters) > 0
    THEN [w EXCEPT !.waiters = <<>>,
                   !.timers = @ \o w.waiters,
                   !.tasks = [t \in Tasks |->
                       IF \E i \in 1..Len(w.waiters) : w.waiters[i] = t
                       THEN [w.tasks[t] EXCEPT !.pc = "signalled", !.woken = "broadcast"]
                       ELSE w.tasks[t]]]
    ELSE w

\* get waitersCount.
WaitersCount(w) == Len(w.waiters)

\* The timer of a waiter fires: the waiter resolves the promise wait() awaits.
WaiterOp(w) ==
    LET t == Head(w.timers)
    IN  [w EXCEPT !.timers = Tail(@),
                  !.tasks[t].pc = "woken",
                  !.microtasks = Append(@, t)]

\* The continuation of a task with a wait() that returns as soon as its
\* waiter has run, without the mutex.
ResumeOpNoReacquire(w) ==
    LET t  == Head(w.microtasks)
        w1 == [w EXCEPT !.microtasks = Tail(@)]
    IN  [w1 EXCEPT !.tasks[t].pc = "held",
                   !.tasks[t].last = IF w.tasks[t].inWait THEN "wait" ELSE @,
                   !.tasks[t].inWait = FALSE]

\* The continuation of a task.  After the waiter ran, wait() goes on to
\* `await this.#mutex.lock()`; after the promise of lock() resolved, the call
\* the task is in (lock(), or the wait() that called lock()) returns.
ResumeOp(w) ==
    LET t  == Head(w.microtasks)
        w1 == [w EXCEPT !.microtasks = Tail(@)]
    IN  IF w.tasks[t].pc = "woken"
        THEN LockOp(w1, t)
        ELSE [w1 EXCEPT !.tasks[t].pc = "held",
                        !.tasks[t].last = IF w.tasks[t].inWait THEN "wait" ELSE @,
                        !.tasks[t].inWait = FALSE]

\* --------------------------------------- the callers of the Mutex and the Cond
\* Code runs to completion: a task calls a method in the synchronous section
\* it is running, or in a section that a task of the event loop starts for it,
\* which happens only when no section is running and no microtask is left.
\* A section ends when its task awaits; `await mutex.lock()` and
\* `await cond.wait()` always end it.
Forget(w, t) == [w EXCEPT !.tasks[t].last = "none"]

MayRun(t) == running = t \/ (running = 0 /\ microtasks = <<>>)

Runs(w, t) == [w EXCEPT !.running = t]

Lock(t) ==
    /\ tasks[t].pc = "idle"
    /\ MayRun(t)
    /\ SetCond(Runs(LockOp(Forget(CondWorld, t), t), 0))

TryLock(t) ==
    /\ tasks[t].pc = "idle"
    /\ MayRun(t)
    /\ SetCond(Runs(TryLockOp(CondWorld, t), t))

\* Only the holder calls unlock().
Unlock(t) ==
    /\ tasks[t].pc = "held"
    /\ MayRun(t)
    /\ SetCond(Runs(UnlockOp([Forget(CondWorld, t) EXCEPT !.tasks[t].pc = "idle"]), t))

\* Only the holder calls wait().
Wait(t) ==
    /\ tasks[t].pc = "held"
    /\ MayRun(t)
    /\ SetCond(Runs(WaitOp(CondWorld, t), 0))

\* signal() and broadcast() do not look at the mutex: a task calls them with
\* the mutex held or, against the contract, without it.
Signal(t) ==
    /\ tasks[t].pc \in {"idle", "held"}
    /\ MayRun(t)
    /\ SetCond(Runs(SignalOp(CondWorld), t))

Broadcast(t) ==
    /\ tasks[t].pc \in {"idle", "held"}
    /\ MayRun(t)
    /\ SetCond(Runs(BroadcastOp(CondWorld), t))

\* The running task awaits something else, or returns: its section ends.
SectionEnds ==
    /\ running # 0
    /\ SetCond(Runs(CondWorld, 0))

\* A timer is a task of the event loop: its callback runs when no section
\* is running and no microtask is left.
WaiterTimerFires ==
    /\ timers # <<>>
    /\ running = 0
    /\ microtasks = <<>>
    /\ SetCond(WaiterOp(CondWorld))

\* The next microtask runs when the running section has ended.  A task that
\* resumes inside wait() suspends again on lock(); a task whose lock() or
\* wait() returns goes on with the section of its caller.
RunMicrotask ==
    /\ microtasks # <<>>
    /\ running = 0
    /\ LET t == Head(microtasks)
           w == ResumeOp(CondWorld)
       IN  SetCond(Runs(w, IF w.tasks[t].pc = "held" THEN t ELSE 0))

InitCond ==
    /\ mutex = NewMutex
    /\ condWaiters = <<>>
    /\ tasks = [t \in Tasks |-> NewTask]
    /\ microtasks = <<>>
    /\ timers = <<>>
    /\ running = 0

\* ================================================================ WaitGroup
\* An integer counter plus the waiters to wake when the counter reaches zero.
\* Largest value of the counter, and calls of wait() in one behaviour.
MaxCounter == 3
MaxWaits == 3

\* waits: the promises returned by wait(), in the order of the calls, each
\* with the counter it found (at) and what resolved it (via).  threw: a call
\* has driven the counter negative, the fatal usage error.
NewWaitGroup == [counter |-> 0, waiters |-> <<>>, waits |-> <<>>, threw |-> FALSE]

\* The waiters of the group are woken: the promises of their wait() resolve.
WakeAll(g) ==
    [g EXCEPT !.waiters = <<>>,
              !.waits = [i \in 1..Len(g.waits) |->
                  IF \E k \in 1..Len(g.waiters) : g.waiters[k] = i
                  THEN [g.waits[i] EXCEPT !.state = "resolved", !.via = "zero"]
                  ELSE g.waits[i]]]

\* add(delta) that wakes one waiter when the counter reaches zero.
WaitGroupAddOpWakesOne(g, delta) ==
    LET n == g.counter + delta IN
    IF n < 0
    THEN [g EXCEPT !.threw = TRUE]
    ELSE IF n = 0 /\ g.waiters # <<>>
    THEN [g EXCEPT !.counter = 0,
                   !.waiters = Tail(@),
                   !.waits[Head(g.waiters)].state = "resolved",
                   !.waits[Head(g.waiters)].via = "zero"]
    ELSE [g EXCEPT !.counter = n]

\* add(delta): adjusts the counter; the counter going negative is a fatal
\* usage error; all waiters are woken when the counter reaches 0.
WaitGroupAddOp(g, delta) ==
    LET n == g.counter + delta IN
    IF n < 0
    THEN [g EXCEPT !.threw = TRUE]
    ELSE IF n = 0
    THEN WakeAll([g EXCEPT !.counter = 0])
    ELSE [g EXCEPT !.counter = n]

\* done() is add(-1).
WaitGroupDoneOp(g) == WaitGroupAddOp(g, -1)

\* wait(): suspends until the counter reaches 0, or returns immediately if
\* it is 0 already.
WaitGroupWaitOp(g) ==
    LET id == Len(g.waits) + 1 IN
    IF g.counter = 0
    THEN [g EXCEPT !.waits = Append(@, [state |-> "resolved", at |-> 0, via |-> "call"])]
    ELSE [g EXCEPT !.waits = Append(@, [state |-> "pending", at |-> g.counter,
                                        via |-> "none"]),
                   !.waiters = Append(@, id)]

\* ------------------------------------------- the callers of a WaitGroup
SetWaitGroup(g) == wg' = g /\ UNCHANGED <<chanVars, ctxVars, once, condVars>>

\* Nothing is called on a group after the fatal usage error.
WgAdd(delta) ==
    /\ ~wg.threw
    /\ wg.counter + delta <= MaxCounter
    /\ SetWaitGroup(WaitGroupAddOp(wg, delta))

WgDone ==
    /\ ~wg.threw
    /\ SetWaitGroup(WaitGroupDoneOp(wg))

WgWait ==
    /\ ~wg.threw
    /\ Len(wg.waits) < MaxWaits
    /\ SetWaitGroup(WaitGroupWaitOp(wg))

InitWaitGroup == wg = NewWaitGroup

InitSync == InitOnce /\ InitCond /\ InitWaitGroup

InitContexts ==
    /\ ctxs = <<ContextRecord("background", 0)>>
    /\ jobs = <<>>

InitCtx == InitChannels([c \in Chans |-> 0]) /\ InitContexts /\ InitSync

NextCtx ==
    \/ \E parent \in 1..Len(ctxs) : Derive(parent)
    \/ \E c \in 1..Len(ctxs) : CallCancel(c)
    \/ \E c \in 1..Len(ctxs), err \in {NoError, CallerError(1), CallerError(2)} :
           CallCancelCause(c, err)
    \/ \E c \in 1..Len(ctxs) : CallDone(c)
    \/ \E c \in 1..Len(ctxs), reason \in {NoError, CallerError(1), NotAnError} :
           CallAbort(c, reason)
    \/ \E c \in 1..Len(ctxs), outcome \in {Fulfilled, CallerError(2), NotAnError} :
           PromiseSettles(c, outcome)
    \/ \E c \in 1..Len(ctxs) : TimerFires(c)
    \/ RunJob

SpecCtx == InitCtx /\ [][NextCtx]_vars

NextAfter ==
    \/ \E parent \in 1..Len(ctxs) : DeriveCause(parent)
    \/ \E parent \in 1..Len(ctxs), fn \in FnKinds : CallAfterFunc(parent, fn)
    \/ \E c \in 1..Len(ctxs), err \in {NoError, CallerError(1)} : CallCancelCause(c, err)
    \/ \E c \in 1..Len(ctxs) : CallStop(c)
    \/ RunJob

SpecAfter == InitCtx /\ [][NextAfter]_vars

NextOnce ==
    \/ \E behaviour \in FBehaviours : Do(behaviour)
    \/ FReenters
    \/ FCompletes
    \/ \E i \in 1..Len(once.calls) : SettleCall(i)

SpecOnce == InitCtx /\ [][NextOnce]_vars

\* Tasks that lock and unlock one Mutex and wait on its Cond.
NextCond ==
    \/ \E t \in Tasks : Lock(t)
    \/ \E t \in Tasks : TryLock(t)
    \/ \E t \in Tasks : Unlock(t)
    \/ \E t \in Tasks : Wait(t)
    \/ \E t \in Tasks : Signal(t)
    \/ \E t \in Tasks : Broadcast(t)
    \/ SectionEnds
    \/ WaiterTimerFires
    \/ RunMicrotask

SpecCond == InitCtx /\ [][NextCond]_vars

\* Tasks that add to a WaitGroup, call done() and wait for it.
NextWaitGroup ==
    \/ \E delta \in (-MaxCounter)..MaxCounter : WgAdd(delta)
    \/ WgDone
    \/ WgWait

SpecWaitGroup == InitCtx /\ [][NextWaitGroup]_vars

\* ---------------------------------------------------------- specifications
\* One channel of any capacity up to MaxCap, called by any number of tasks.
InitChan ==
    /\ \E cap \in 0..MaxCap : InitChannels([c \in Chans |-> IF c = 1 THEN cap ELSE 0])
    /\ InitContexts
    /\ InitSync

NextChan ==
    \/ Send(1)
    \/ TrySend(1)
    \/ Receive(1)
    \/ TryReceive(1)
    \/ Close(1)

SpecChan == InitChan /\ [][NextChan]_vars

\* A rendezvous channel (1) and a channel of capacity 1 (2), used through
\* select and through plain calls.
InitSelect == InitChannels([c \in Chans |-> c - 1]) /\ InitContexts /\ InitSync

Calls == Len(sends) + Len(recvs)

\* One call of select is studied, with plain calls before and after it.
NextSelect ==
    \/ \E cases \in SeqsUpTo(CaseKinds, MaxCases) :
           Calls + Len(cases) <= MaxCalls /\ Select(cases)
    \/ \E s \in 1..Len(sels) : SelectContinue(s)
    \/ \E c \in Chans : Calls < MaxCalls /\ Send(c)
    \/ \E c \in Chans : Calls < MaxCalls /\ Receive(c)
    \/ \E c \in Chans : Close(c)

\* Cases of one select call in the specification of select with many cases.
MaxManyCases == 3

\* One call of select with up to MaxManyCases cases, with plain calls before
\* and after it.
NextSelectMany ==
    \/ \E cases \in SeqsUpTo(CaseKinds, MaxManyCases) :
           Calls + Len(cases) <= MaxCalls /\ Select(cases)
    \/ \E s \in 1..Len(sels) : SelectContinue(s)
    \/ \E c \in Chans : Calls < MaxCalls /\ Send(c)
    \/ \E c \in Chans : Calls < MaxCalls /\ Receive(c)
    \/ \E c \in Chans : Close(c)

SpecSelectMany == InitSelect /\ [][NextSelectMany]_vars

SpecSelect == InitSelect /\ [][NextSelect]_vars

\* ------------------------------------------------------- claims: Channel
\* The values in the ring buffer of a channel, oldest first.
BufferSeq(chn) == [i \in 1..chn.count |-> chn.buffer[(chn.head + i - 1) % chn.capacity]]

\* The values held by the queued senders of a channel, longest-queued first.
WaiterValues(chn) == [i \in 1..Len(chn.sendWaiters) |-> chn.sendWaiters[i].value]

Increasing(q) == \A i \in 1..(Len(q) - 1) : q[i] < q[i + 1]

\* The step is a call of send on c / of receive on c (a new promise appears).
SendCalled(c) == Len(sends') = Len(sends) + 1 /\ sends'[Len(sends')].ch = c
ReceiveCalled(c) == Len(recvs') = Len(recvs) + 1 /\ recvs'[Len(recvs')].ch = c
\* The step is a call of trySend on c: a value is used and no promise appears.
TrySendCalled(c) == nextVal' = nextVal + 1 /\ sends' = sends /\ ret'.op = "trySend" /\ ret'.ch = c
\* The step is a call of tryReceive on c that returned a value.
TryReceiveGot(c) == recvs' = recvs /\ Len(delivered'[c]) = Len(delivered[c]) + 1
\* The step is the call of close that closes c.
CloseCalled(c) == ~ch[c].closed /\ ch'[c].closed

\* C1: close() settles every queued send: no send is still pending on a
\* channel that has been closed (each was failed with a closed-channel error).
C1_CloseSettlesQueuedSends ==
    \A id \in 1..Len(sends) : ch[sends[id].ch].closed => sends[id].state # "pending"

\* C4: on a channel of capacity > 0 the values reach the receivers in the
\* order of their sends (delivered, then buffered, then queued values are in
\* send order), and a receive that frees a slot while senders are queued
\* resumes exactly the longest-queued sender and appends its value at the tail.
C4_Order ==
    \A c \in Chans : ch[c].capacity > 0 =>
        Increasing(delivered[c] \o BufferSeq(ch[c]) \o WaiterValues(ch[c]))

C4_Resume ==
    \A c \in Chans :
        LET chn == ch[c] IN
        (/\ chn.capacity > 0 /\ chn.count > 0 /\ Len(chn.sendWaiters) > 0
         /\ (ReceiveCalled(c) \/ TryReceiveGot(c)))
        => LET waiter == Head(chn.sendWaiters) IN
           /\ delivered'[c] = Append(delivered[c], chn.buffer[chn.head])
           /\ ch'[c].sendWaiters = Tail(chn.sendWaiters)
           /\ sends'[waiter.resolve].state = "resolved"
           /\ \A i \in 2..Len(chn.sendWaiters) :
                  sends'[chn.sendWaiters[i].resolve].state = "pending"
           /\ ch'[c].buffer[chn.tail] = waiter.value
           /\ ch'[c].tail = (chn.tail + 1) % chn.capacity
           /\ ch'[c].count = chn.count

C4_FifoOrder == [](C4_Order) /\ [][C4_Resume]_vars

\* A sender was queued behind a full buffer of capacity 2 with another sender
\* queued behind it, and a receive resumed it alone.
C4_Witness ==
    /\ ch[1].capacity = 2 /\ Len(sends) = 4 /\ delivered[1] = <<1>>
    /\ sends[3].state = "resolved" /\ sends[3].via = "processSendWaiters"
    /\ sends[4].state = "pending"
    /\ BufferSeq(ch[1]) = <<2, 3>>

\* C5: close() resolves every blocked receiver with ok = false and leaves the
\* buffered values in place; after it receive and tryReceive still return the
\* buffered values, oldest first, with ok = true; and a receive has ok = false
\* only when the channel is closed and its buffer is empty.
C5_CloseStep ==
    \A c \in Chans : CloseCalled(c) =>
        /\ \A i \in 1..Len(ch[c].receiveWaiters) :
              LET p == recvs'[ch[c].receiveWaiters[i].resolve]
              IN  p.state = "resolved" /\ ~p.ok
        /\ ch'[c].receiveWaiters = <<>>
        /\ BufferSeq(ch'[c]) = BufferSeq(ch[c])

C5_DrainStep ==
    \A c \in Chans : (ch[c].closed /\ ch[c].count > 0) =>
        /\ ReceiveCalled(c) =>
              LET p == recvs'[Len(recvs')]
              IN  /\ p.state = "resolved" /\ p.ok
                  /\ p.value = Head(BufferSeq(ch[c]))
                  /\ BufferSeq(ch'[c]) = Tail(BufferSeq(ch[c]))
        /\ (recvs' = recvs /\ ret' # ret /\ ret'.op = "tryReceive") =>
              /\ ret'.ok /\ ret'.value = Head(BufferSeq(ch[c]))
              /\ BufferSeq(ch'[c]) = Tail(BufferSeq(ch[c]))

C5_OkFalse ==
    \A id \in 1..Len(recvs) :
        (recvs[id].state = "resolved" /\ ~recvs[id].ok) =>
            ch[recvs[id].ch].closed /\ ch[recvs[id].ch].count = 0

C5_CloseKeepsBuffer == [](C5_OkFalse) /\ [][C5_CloseStep /\ C5_DrainStep]_vars

\* Two values were buffered when the channel was closed; the receives called
\* after the close got them in order with ok = true, and the next ok = false.
C5_Witness ==
    /\ ch[1].closed /\ Len(recvs) = 3
    /\ \A id \in 1..3 : recvs[id].closedAtCall
    /\ recvs[1].ok /\ recvs[1].value = 1 /\ recvs[2].ok /\ recvs[2].value = 2
    /\ recvs[3].state = "resolved" /\ ~recvs[3].ok

\* C6: 0 <= count <= capacity, and head and tail are indices of the ring
\* buffer (0 when there is no buffer, capacity 0).
C6_CountWithinCapacity ==
    \A c \in Chans :
        LET chn == ch[c] IN
        /\ 0 <= chn.count /\ chn.count <= chn.capacity
        /\ chn.capacity > 0 => (chn.head \in 0..(chn.capacity - 1) /\ chn.tail \in 0..(chn.capacity - 1))
        /\ chn.capacity = 0 => (chn.count = 0 /\ chn.head = 0 /\ chn.tail = 0)

\* The buffer is full after head and tail have wrapped around.
C6_Witness ==
    ch[1].capacity = 2 /\ ch[1].count = 2 /\ ch[1].head = 1 /\ ch[1].tail = 1

\* C7: buffered values and waiting receivers are never both present; a
\* receive that arrives while count > 0 is served from the buffer without
\* queueing, and a send or trySend that arrives while a receiver waits hands
\* its value to the longest-waiting receiver without touching the buffer.
C7_Exclusive ==
    \A c \in Chans : ~(ch[c].count > 0 /\ Len(ch[c].receiveWaiters) > 0)

C7_Step ==
    \A c \in Chans :
        LET chn == ch[c] IN
        /\ (chn.count > 0 /\ ReceiveCalled(c)) =>
              /\ recvs'[Len(recvs')].state = "resolved"
              /\ recvs'[Len(recvs')].value = chn.buffer[chn.head]
              /\ ch'[c].receiveWaiters = chn.receiveWaiters
        /\ (Len(chn.receiveWaiters) > 0 /\ ~chn.closed /\ (SendCalled(c) \/ TrySendCalled(c))) =>
              LET p == recvs'[Head(chn.receiveWaiters).resolve]
              IN  /\ p.state = "resolved" /\ p.ok /\ p.value = nextVal
                  /\ ch'[c].receiveWaiters = Tail(chn.receiveWaiters)
                  /\ ch'[c].buffer = chn.buffer /\ ch'[c].count = chn.count
                  /\ SendCalled(c) => sends'[Len(sends')].state = "resolved"
                  /\ TrySendCalled(c) => ret'.ok

C7_BufferOrReceivers == [](C7_Exclusive) /\ [][C7_Step]_vars

\* On a buffered channel a send handed its value to the longest waiting of
\* two receivers; the other one still waits.
C7_Witness ==
    /\ ch[1].capacity > 0 /\ Len(recvs) = 2 /\ Len(sends) = 1
    /\ sends[1].via = "receiver" /\ recvs[1].via = "send" /\ recvs[1].value = 1
    /\ recvs[2].state = "pending" /\ ch[1].count = 0

\* C8: on a channel of capacity 0 a send issued while no receiver waits is
\* pending; it is completed only by a receive or tryReceive, which obtains
\* the value of the longest-queued sender and completes that send in the same
\* step; the value does not pass through the buffer.
C8_Step ==
    \A c \in Chans : ch[c].capacity = 0 =>
        LET chn == ch[c] IN
        /\ (SendCalled(c) /\ ~chn.closed /\ Len(chn.receiveWaiters) = 0) =>
              /\ sends'[Len(sends')].state = "pending"
              /\ ch'[c].sendWaiters = Append(chn.sendWaiters,
                                             [value |-> nextVal, resolve |-> Len(sends')])
        /\ \A id \in 1..Len(sends) :
              (sends[id].ch = c /\ sends[id].state = "pending" /\ sends'[id].state # "pending") =>
                  /\ Head(chn.sendWaiters).resolve = id
                  /\ sends'[id].state = "resolved"
                  /\ delivered'[c] = Append(delivered[c], sends[id].value)
                  /\ \/ ReceiveCalled(c) /\ recvs'[Len(recvs')].state = "resolved"
                        /\ recvs'[Len(recvs')].ok /\ recvs'[Len(recvs')].value = sends[id].value
                     \/ TryReceiveGot(c) /\ ret'.ok /\ ret'.value = sends[id].value
        /\ ((ReceiveCalled(c) \/ TryReceiveGot(c)) /\ Len(chn.sendWaiters) > 0) =>
              /\ sends'[Head(chn.sendWaiters).resolve].state = "resolved"
              /\ delivered'[c] = Append(delivered[c], Head(chn.sendWaiters).value)
              /\ ch'[c].sendWaiters = Tail(chn.sendWaiters)
        /\ ch'[c].count = 0 /\ ch'[c].buffer = chn.buffer

C8_Rendezvous == [][C8_Step]_vars

\* A send waited on a rendezvous channel and a receive took its value.
C8_Witness ==
    /\ ch[1].capacity = 0 /\ Len(sends) = 2 /\ Len(recvs) = 1
    /\ sends[1].state = "resolved" /\ sends[1].via = "receive"
    /\ recvs[1].via = "sender" /\ recvs[1].value = 1 /\ recvs[1].ok
    /\ sends[2].state = "pending"

\* C9: once the channel is closed no send succeeds: send() is rejected at
\* once, trySend() returns false, and neither changes the buffer, hands a
\* value to a receiver or queues a sender.
C9_Step ==
    \A c \in Chans : ch[c].closed =>
        /\ SendCalled(c) => sends'[Len(sends')].state = "rejected"
        /\ TrySendCalled(c) => ~ret'.ok
        /\ (SendCalled(c) \/ TrySendCalled(c)) =>
              ch' = ch /\ recvs' = recvs /\ delivered' = delivered

C9_Settled ==
    \A id \in 1..Len(sends) : sends[id].state = "rejected" => ch[sends[id].ch].closed

C9_NoSendAfterClose == [](C9_Settled) /\ [][C9_Step]_vars

\* A send was rejected and a trySend refused on a closed channel that has room.
C9_Witness ==
    /\ ch[1].closed /\ ch[1].capacity = 2 /\ ch[1].count = 1
    /\ \E id \in 1..Len(sends) : sends[id].state = "rejected"
    /\ ret.op = "trySend" /\ ~ret.ok

\* -------------------------------------------------------- claims: select
\* The promise of the k-th racing operation of select call s has settled.
Settled(s, k) ==
    LET op == sels[s].ops[k] IN
    IF op.type = "receive" THEN recvs[op.promise].state # "pending"
    ELSE sends[op.promise].state # "pending"

\* C10: a select call that has returned normally has run exactly one action
\* (the default action or the action of one receive or send case), and none
\* has run while the call is still waiting or when it threw.
C10_ExactlyOneAction ==
    \A s \in 1..Len(sels) :
        /\ sels[s].state = "returned" =>
              /\ Len(sels[s].ran) = 1
              /\ sels[s].ran[1] \in 1..Len(sels[s].cases)
        /\ sels[s].state # "returned" => sels[s].ran = <<>>

\* A select with two cases, both of whose operations have completed, returned.
C10_Witness ==
    /\ Len(sels) = 1 /\ sels[1].state = "returned" /\ Len(sels[1].ops) = 2
    /\ Settled(1, 1) /\ Settled(1, 2)
    /\ sels[1].ops[1].type = "receive" /\ recvs[sels[1].ops[1].promise].ok
    /\ sels[1].ops[2].type = "send" /\ sends[sels[1].ops[2].promise].state = "resolved"

\* The k-th racing operation of select call s has taken a value from its
\* channel or put one into it (handed to a receiver or stored in the buffer).
Committed(s, k) ==
    LET op == sels[s].ops[k] IN
    IF op.type = "receive"
    THEN recvs[op.promise].state = "resolved" /\ recvs[op.promise].ok
    ELSE sends[op.promise].state = "resolved"

\* C11: select commits to exactly one channel operation: when a select call
\* has run the action of a case, no case on another channel has removed a
\* value from its channel or added one to it.
C11_OnlyWinnerCommits ==
    \A s \in 1..Len(sels) :
        sels[s].state = "returned" /\ sels[s].ops # <<>> =>
            \A k \in 1..Len(sels[s].ops) :
                sels[s].ops[k].channel # sels[s].ops[sels[s].winner].channel =>
                    ~Committed(s, k)

\* A select call starts in this step.
SelectCalled == Len(sels') = Len(sels) + 1

\* The default action ran in the step that started the last select call.
DefaultRan == sels'[Len(sels')].ran # <<>>

\* The operation of a case would complete at once in the current state.
ImmediatelySatisfiable(case_) ==
    LET chn == ch[case_.channel] IN
    CASE case_.type = "receive" ->
            chn.count > 0 \/ chn.sendWaiters # <<>> \/ chn.closed
      [] case_.type = "send" ->
            chn.receiveWaiters # <<>> \/ (chn.capacity > 0 /\ chn.count < chn.capacity)
      [] OTHER -> FALSE

HasDefault(cases) == \E i \in 1..Len(cases) : cases[i].type = "default"

\* C12: with a default case present, select runs the default if and only if
\* no receive or send case is immediately satisfiable at call time (receive:
\* a buffered value, a queued sender or a closed channel; send: a waiting
\* receiver or room in the buffer).
C12_DefaultIffNothingReady ==
    [][SelectCalled /\ sels'[Len(sels')].state # "threw"
           /\ HasDefault(sels'[Len(sels')].cases) =>
       LET cases == sels'[Len(sels')].cases IN
       DefaultRan <=> ~\E i \in 1..Len(cases) : ImmediatelySatisfiable(cases[i])]_vars

\* C13: a select that runs the default action starts no receive and no send:
\* no promise is created, no waiter is queued, no channel changes; a select
\* with only a default case always runs the default.
C13_Step ==
    SelectCalled =>
        /\ DefaultRan =>
              /\ ch' = ch /\ sends' = sends /\ recvs' = recvs /\ delivered' = delivered
              /\ sels'[Len(sels')].state = "returned"
              /\ sels'[Len(sels')].ops = <<>>
        /\ sels'[Len(sels')].cases = <<[type |-> "default", channel |-> 0]>> => DefaultRan

C13_DefaultSuspendsNothing == [][C13_Step]_vars

\* A select with a receive case and a default case ran the default
\* while a receive started earlier is still waiting on a channel.
C13_Witness ==
    /\ Len(sels) = 1 /\ sels[1].state = "returned" /\ sels[1].ops = <<>>
    /\ Len(sels[1].cases) = 2
    /\ \E i \in 1..2 : sels[1].cases[i].type = "receive"
    /\ \E i \in 1..2 : sels[1].cases[i].type = "default"
    /\ \E c \in Chans : ch[c].receiveWaiters # <<>>

\* ------------------------------------------------------ claims: contexts
CtxIds == 1..Len(ctxs)

\* C2: a context becomes Done at most once and its cause is immutable once
\* Done, also when it finished without error: once done() has resolved, no
\* step changes what err() returns.
C2_CauseImmutableOnceDone ==
    [][\A c \in CtxIds : ctxs[c].done = "resolved" => ctxs'[c].err = ctxs[c].err]_vars

\* C3: cancel is idempotent, the first call wins: once err() of a context
\* returns a defined error, every later err() returns that same error.
C3_FirstErrorWins ==
    [][\A c \in CtxIds : ctxs[c].err # NoError => ctxs'[c].err = ctxs[c].err]_vars

\* A context cancelled with its own error, whose parent was cancelled later
\* with another one; the propagation from the parent has run and was ignored.
C3_Witness ==
    \E c \in CtxIds :
        /\ ctxs[c].parent # 0
        /\ ctxs[c].err # NoError
        /\ ctxs[ctxs[c].parent].err # NoError
        /\ ctxs[ctxs[c].parent].err # ctxs[c].err
        /\ ctxs[ctxs[c].parent].reactions = <<>>
        /\ jobs = <<>>

\* A context is Done when its done promise is resolved; it is Active before.
Done(c) == ctxs[c].done = "resolved"

PropagateJob(c) == Job("propagate", c, NoError)

InJobs(job) == \E i \in 1..Len(jobs) : jobs[i] = job

\* C14: when a parent is Done, each context derived from it that is still
\* Active has the propagation from the parent in the microtask queue, so that
\* it is Done before the next task runs; the propagation gives a context that
\* is still Active the err() of its parent, undefined included.
C14_Pending ==
    \A c \in CtxIds :
        ctxs[c].parent # 0 /\ Done(ctxs[c].parent) /\ ~Done(c) => InJobs(PropagateJob(c))

C14_Step ==
    \A c \in CtxIds :
        jobs # <<>> /\ jobs' = Tail(jobs) /\ Head(jobs) = PropagateJob(c) /\ ~Done(c) =>
            /\ ctxs'[c].done = "resolved"
            /\ ctxs'[c].err = ctxs[ctxs[c].parent].err

Derived == Len(ctxs') = Len(ctxs) + 1

\* C15: a context derived from a parent whose err() is already defined has
\* err() equal to the error of the parent when the derive call returns.
C15_SynchronousAdoption ==
    [][Derived /\ ctxs[ctxs'[Len(ctxs')].parent].err # NoError =>
           ctxs'[Len(ctxs')].err = ctxs[ctxs'[Len(ctxs')].parent].err]_vars

\* A context made by watchSignal from a signal that was aborted with an error
\* reports the error of its parent, which is another one.
C15_Witness ==
    \E c \in CtxIds :
        /\ ctxs[c].kind = "watchSignal"
        /\ ctxs[c].signal.aborted /\ ctxs[c].signal.reason = CallerError(1)
        /\ ctxs[c].parent # 0
        /\ ctxs[ctxs[c].parent].err = CallerError(2)
        /\ ctxs[c].err = CallerError(2)

\* The timer callback of context c runs in this step.
TimerCallbackRuns(c) == ctxs[c].timer = "armed" /\ ctxs'[c].timer = "fired"

\* C16: the timer of a withTimeout context that is still Active when it fires
\* makes the context Done with a ContextTimeoutError; a context completed
\* first keeps its earlier cause: the timer callback never runs for it and
\* its cause never becomes a ContextTimeoutError.
C16_Step ==
    \A c \in CtxIds :
        /\ TimerCallbackRuns(c) =>
              /\ ~Done(c)
              /\ ctxs'[c].done = "resolved"
              /\ ctxs'[c].err = ContextTimeoutError(c)
        /\ Done(c) /\ ctxs[c].err # ContextTimeoutError(c) =>
              ctxs'[c].err # ContextTimeoutError(c)

C16_TimeoutOrEarlierCause == [][C16_Step]_vars

\* Two withTimeout contexts, one derived from the other: the timer of the
\* parent fired, the child was completed through its parent before its own
\* timer fired, and its timer was cleared.
C16_Witness ==
    \E c \in CtxIds :
        /\ ctxs[c].kind = "withTimeout" /\ ctxs[c].parent # 0
        /\ ctxs[ctxs[c].parent].kind = "withTimeout"
        /\ ctxs[ctxs[c].parent].timer = "fired"
        /\ ctxs[ctxs[c].parent].err = ContextTimeoutError(ctxs[c].parent)
        /\ ctxs[c].err = ContextTimeoutError(ctxs[c].parent)
        /\ ctxs[c].timer = "cleared"

\* C17: teardown is leak-free: in no state is a context Done while its timer
\* is still armed or its abort listener still registered.
C17_NoListenerOnceDone ==
    \A c \in CtxIds : Done(c) => ctxs[c].timer # "armed" /\ ~ctxs[c].signal.listener

\* ----------------------------------------------------- claims: afterFunc
AfterFuncIds == {c \in CtxIds : ctxs[c].kind = "afterFunc"}

ExecuteFuncJob(c) == Job("executeFunc", c, NoError)

\* C18: an error raised by an afterFunc callback is swallowed, whether the
\* callback throws or returns a promise that rejects: no call of a callback
\* leaves a rejected promise without a handler.
C18_ErrorsSwallowed == \A c \in AfterFuncIds : ~ctxs[c].unhandled

\* C19: the callback of afterFunc is invoked only after the parent is Done and
\* at most once; when stop() was never called and the parent is Done, it has
\* been invoked once or its invocation is in the microtask queue.
C19_Invoked ==
    \A c \in AfterFuncIds :
        /\ ctxs[c].calls <= 1
        /\ ctxs[c].calls = 1 => Done(ctxs[c].parent)
        /\ Done(ctxs[c].parent) /\ ctxs[c].stops = <<>> =>
              ctxs[c].calls = 1 \/ InJobs(ExecuteFuncJob(c))

C19_Step ==
    \A c \in AfterFuncIds :
        ctxs'[c].calls # ctxs[c].calls =>
            /\ Done(ctxs[c].parent)
            /\ jobs # <<>> /\ Head(jobs) = ExecuteFuncJob(c)

C19_OnceAfterParentDone == []C19_Invoked /\ [][C19_Step]_vars

\* Two callbacks registered on one parent were invoked once each, with no
\* stop() call; the parent finished without error.
C19_Witness ==
    \E c, d \in AfterFuncIds :
        /\ c < d /\ ctxs[c].parent = ctxs[d].parent
        /\ Done(ctxs[c].parent) /\ ctxs[ctxs[c].parent].err = NoError
        /\ ctxs[c].calls = 1 /\ ctxs[c].stops = <<>>
        /\ ctxs[d].calls = 1 /\ ctxs[d].stops = <<>>
        /\ jobs = <<>>

\* stop() of context c returns in this step.
StopReturns(c) == Len(ctxs'[c].stops) = Len(ctxs[c].stops) + 1

StoppedBefore(c) == \E i \in 1..Len(ctxs[c].stops) : ctxs[c].stops[i]

\* C20: stop() returns true exactly when the callback has not begun and no
\* earlier stop() returned true; after a stop() that returned true the
\* callback is never invoked; a stop() that returns false changes nothing.
C20_Step ==
    \A c \in AfterFuncIds :
        /\ StopReturns(c) =>
              LET result == ctxs'[c].stops[Len(ctxs'[c].stops)] IN
              /\ result <=> (ctxs[c].calls = 0 /\ ~StoppedBefore(c))
              /\ ~result => ctxs' = [ctxs EXCEPT ![c].stops = Append(@, FALSE)]
              /\ jobs' = jobs
        /\ StoppedBefore(c) => ctxs'[c].calls = 0

C20_StopPreventsCallback == [][C20_Step]_vars

\* stop() was called when the parent was already cancelled and the callback
\* was waiting in the microtask queue: it returned true, the callback's turn
\* came and it was not invoked, and a second stop() returned false.
C20_Witness ==
    \E c \in AfterFuncIds :
        /\ ctxs[c].stops = <<TRUE, FALSE>>
        /\ Done(ctxs[c].parent)
        /\ ctxs[c].calls = 0
        /\ ~InJobs(ExecuteFuncJob(c))
        /\ \E d \in AfterFuncIds : ctxs[d].stops = <<FALSE>> /\ ctxs[d].calls = 1

\* ------------------------------------------- claims: withAbort, watchPromise
WithAbortIds == {c \in CtxIds : ctxs[c].kind = "withAbort"}

AbortJob(c) == Job("abort", c, NoError)

RemoveListenerJob(c) == Job("removeEventListener", c, NoError)

\* What onAbort makes of the reason of a signal.
CauseOfAbort(c, reason) == IF IsError(reason) THEN reason ELSE ContextCancelledError(c)

\* The microtask at the head of the queue runs in this step.
HeadJobRuns ==
    /\ jobs # <<>>
    /\ [ctxs |-> ctxs', jobs |-> jobs'] = RunJobOp([CtxWorld EXCEPT !.jobs = Tail(@)], Head(jobs))

\* C21: the binding of withAbort takes effect once in each direction.  A
\* context that is Done and whose controller is not aborted has the abort of
\* the controller in the microtask queue, behind the removal of the listener.
C21_Bound ==
    \A c \in WithAbortIds :
        /\ Done(c) /\ ~ctxs[c].signal.aborted => InJobs(AbortJob(c))
        /\ ctxs[c].signal.aborted => ~ctxs[c].signal.listener
        /\ ctxs[c].signal.listener /\ InJobs(AbortJob(c)) =>
              \E i, j \in 1..Len(jobs) :
                  i < j /\ jobs[i] = RemoveListenerJob(c) /\ jobs[j] = AbortJob(c)

\* An abort of the controller of an Active context makes the context Done
\* with the reason in the same step; an abort that arrives when the listener
\* was removed cancels nothing; the abort queued by a Done context aborts a
\* controller not yet aborted, with the error of the context as the reason;
\* an aborted signal never changes again.
C21_Step ==
    \A c \in WithAbortIds :
        LET becomesAborted == ~ctxs[c].signal.aborted /\ ctxs'[c].signal.aborted IN
        /\ becomesAborted /\ ~Done(c) =>
              /\ ctxs'[c].done = "resolved"
              /\ ctxs'[c].err = CauseOfAbort(c, ctxs'[c].signal.reason)
        /\ becomesAborted /\ ~ctxs[c].signal.listener =>
              /\ Done(c)
              /\ ctxs'[c].err = ctxs[c].err
        /\ HeadJobRuns /\ Head(jobs) = AbortJob(c) /\ ~ctxs[c].signal.aborted =>
              /\ ctxs'[c].signal.aborted
              /\ ctxs'[c].signal.reason =
                     IF ctxs[c].err # NoError THEN ctxs[c].err ELSE AbortError(c)
              /\ ctxs'[c].err = ctxs[c].err
        /\ ctxs[c].signal.aborted => ctxs'[c].signal = ctxs[c].signal

C21_TwoWayOnce == []C21_Bound /\ [][C21_Step]_vars

\* The controller of one context was aborted by its owner with a reason that
\* is no Error and the context is Done; a context derived from it became Done
\* through it and its controller was aborted with the error of the parent.
C21_Witness ==
    \E c, d \in WithAbortIds :
        /\ ctxs[c].parent = 1 /\ ctxs[d].parent = c
        /\ ctxs[d].err = ContextCancelledError(c)
        /\ ctxs[d].signal.aborted /\ ctxs[d].signal.reason = ContextCancelledError(c)
        /\ ctxs[c].err = ContextCancelledError(c)
        /\ ctxs[c].signal.aborted /\ ctxs[c].signal.reason = NotAnError
        /\ jobs = <<>>

WatchPromiseIds == {c \in CtxIds : ctxs[c].kind = "watchPromise"}

\* What a context mirrors of the outcome of the promise it watches.
Mirror(c, outcome) ==
    IF outcome = Fulfilled THEN NoError
    ELSE IF outcome.name \in {"Error", "ContextCancelledError", "ContextTimeoutError",
                              "AbortError"}
    THEN outcome
    ELSE [name |-> "Error(String(reason))", src |-> c]

\* C22: a watchPromise context that is still Active when the callback of its
\* promise runs becomes Done with the outcome of the promise: err() undefined
\* for a fulfilment, the rejection value when it is an Error, a new Error that
\* wraps it otherwise; the callback is queued when the promise settles.
C22_Queued ==
    \A c \in WatchPromiseIds :
        ctxs[c].promise = "settled" /\ ~Done(c) =>
            \E i \in 1..Len(jobs) : jobs[i].type = "settled" /\ jobs[i].ctx = c

C22_Step ==
    \A c \in WatchPromiseIds :
        HeadJobRuns /\ Head(jobs).type = "settled" /\ Head(jobs).ctx = c /\ ~Done(c) =>
            /\ ctxs'[c].done = "resolved"
            /\ ctxs'[c].err = Mirror(c, Head(jobs).value)

DoIds == 1..Len(once.calls)

\* C23: across all calls of do() on one Once, whatever functions they pass,
\* exactly one function is invoked: the function of the first call.
C23_OneInvocation ==
    /\ Len(once.invoked) <= 1
    /\ once.calls # <<>> => once.invoked = <<once.calls[1].f>>

\* Four calls with four functions, one made while the first function was
\* running and one after it had finished; all have settled.
C23_Witness ==
    /\ Len(once.calls) = 4
    /\ once.invoked = <<1>>
    /\ \E i, j \in DoIds : once.calls[i].stateAtCall = 1 /\ once.calls[j].stateAtCall = 2
    /\ \A i \in DoIds : ~once.calls[i].inner /\ once.calls[i].status = "fulfilled"

\* The outcome of the function of the first call: the value 1 or the error 1.
FirstOutcome ==
    [ status |-> IF once.f.behaviour \in {"throws", "rejects"} THEN "rejected" ELSE "fulfilled",
      value  |-> 1 ]

C25_InnerCallNeverCompletes ==
    \A i \in DoIds : once.calls[i].inner => once.calls[i].status = "pending"

\* ------------------------------------------------ claims: Mutex and Cond
OnSeq(q) == {q[i] : i \in 1..Len(q)}

Distinct(q) == \A i, j \in 1..Len(q) : q[i] = q[j] => i = j

\* Task t returns from wait() in this step.
WaitReturns(t) == tasks[t].inWait /\ ~tasks'[t].inWait

\* Some task releases the mutex in this step, by unlock() or by wait().
Releases(t) == Unlock(t) \/ Wait(t)

\* C26: wait(), called by the holder of the mutex, releases the mutex and
\* pushes the caller's waiter in one step: after the step the caller waits on
\* #waiters and the mutex is free or has passed to the first pending acquirer.
\* The caller leaves #waiters only by being signalled, calls lock() only after
\* its waiter has run, and returns from wait() only as the one holder of the
\* locked mutex.
C26_Step ==
    \A t \in Tasks :
        /\ Wait(t) =>
              /\ tasks'[t].pc = "waiting"
              /\ condWaiters' = Append(condWaiters, t)
              /\ IF mutex.queue = <<>>
                 THEN ~mutex'.locked /\ Holders(tasks') = {}
                 ELSE mutex'.locked /\ Holders(tasks') = {Head(mutex.queue)}
        /\ (tasks[t].pc = "waiting" /\ tasks'[t].pc # "waiting") =>
              /\ tasks'[t].pc = "signalled"
              /\ tasks'[t].woken # "no"
        /\ (tasks[t].inWait /\ tasks[t].pc # tasks'[t].pc
                /\ tasks'[t].pc \in {"queued", "acquired"}) =>
              tasks[t].pc = "woken"
        /\ WaitReturns(t) =>
              /\ tasks[t].pc \in {"acquired", "granted"}
              /\ tasks[t].woken # "no"
              /\ tasks'[t].pc = "held"
              /\ mutex'.locked
              /\ Holders(tasks') = {t}

C26_WaitReleasesAndReacquires == [][C26_Step]_vars

\* A task has returned from wait() and is the one holder of the mutex, while
\* another task is pending on the mutex.
C26_Witness ==
    \E t \in Tasks :
        /\ tasks[t].pc = "held"
        /\ tasks[t].last = "wait"
        /\ Holders(tasks) = {t}
        /\ mutex.locked
        /\ mutex.queue # <<>>

\* C27: signal() with at least one waiter queued takes the first waiter of
\* #waiters, the one pushed earliest, hands it to setTimeout and leaves every
\* other task as it was, so waitersCount drops by one; with no waiter queued
\* it changes nothing.
C27_Step ==
    \A t \in Tasks :
        Signal(t) =>
            IF condWaiters # <<>>
            THEN LET n == Head(condWaiters)
                 IN  /\ condWaiters' = Tail(condWaiters)
                     /\ WaitersCount([waiters |-> condWaiters'])
                            = WaitersCount([waiters |-> condWaiters]) - 1
                     /\ timers' = Append(timers, n)
                     /\ tasks'[n].pc = "signalled"
                     /\ \A u \in Tasks \ {n} : tasks'[u] = tasks[u]
            ELSE UNCHANGED <<mutex, condWaiters, tasks, microtasks, timers>>

C27_SignalWakesLongestWaiter == [][C27_Step]_vars

\* Two tasks waited; signal() took the waiter of one, and the other one is
\* still on #waiters.
C27_Witness ==
    \E a, b \in Tasks :
        /\ tasks[a].pc = "signalled"
        /\ tasks[a].woken = "signal"
        /\ timers = <<a>>
        /\ tasks[b].pc = "waiting"
        /\ condWaiters = <<b>>

\* C28: broadcast() hands every waiter on #waiters to setTimeout, in order,
\* and leaves #waiters empty; no task is on the timers twice, and a wait()
\* adds its waiter to #waiters only, where it stays until a later signal() or
\* broadcast().  At most one task returns from wait() in a step, and it
\* returns as the one holder of the locked mutex.
C28_Inv ==
    /\ Distinct(timers)
    /\ Distinct(condWaiters)
    /\ OnSeq(timers) = {t \in Tasks : tasks[t].pc = "signalled"}
    /\ OnSeq(condWaiters) = {t \in Tasks : tasks[t].pc = "waiting"}

C28_Step ==
    /\ \A t \in Tasks :
          Broadcast(t) =>
              /\ condWaiters' = <<>>
              /\ timers' = timers \o condWaiters
              /\ \A u \in OnSeq(condWaiters) :
                    tasks'[u].pc = "signalled" /\ tasks'[u].woken = "broadcast"
              /\ \A u \in Tasks \ OnSeq(condWaiters) : tasks'[u] = tasks[u]
    /\ \A t \in Tasks :
          Wait(t) => timers' = timers /\ tasks'[t].woken = "no"
    /\ \A t \in Tasks :
          (tasks[t].pc = "waiting" /\ tasks'[t].pc # "waiting") =>
              \E u \in Tasks : Signal(u) \/ Broadcast(u)
    /\ \A t, u \in Tasks :
          (WaitReturns(t) /\ WaitReturns(u)) => t = u
    /\ \A t \in Tasks :
          WaitReturns(t) => mutex'.locked /\ Holders(tasks') = {t}

C28_BroadcastWakesAll == []C28_Inv /\ [][C28_Step]_vars

\* Two waiters were woken by broadcast(): one has returned from wait() and
\* holds the mutex, the other is still inside wait(), pending on the mutex.
C28_Witness ==
    \E a, b \in Tasks :
        /\ tasks[a].pc = "held"
        /\ tasks[a].last = "wait"
        /\ tasks[a].woken = "broadcast"
        /\ tasks[b].inWait
        /\ tasks[b].woken = "broadcast"
        /\ tasks[b].pc = "queued"

\* C29: the queue of the mutex holds the suspended lock() callers, each once,
\* in the order of their calls.  A release by the holder, with callers queued,
\* takes the first of them off the queue and makes it the holder, the mutex
\* staying locked and every other caller staying queued; a queued caller
\* leaves the queue in no other way, and a task becomes a holder only by that
\* or by finding the mutex unlocked.
C29_Inv ==
    /\ Distinct(mutex.queue)
    /\ OnSeq(mutex.queue) = {t \in Tasks : tasks[t].pc = "queued"}
    /\ mutex.queue # <<>> => mutex.locked

C29_Step ==
    /\ \A t \in Tasks :
          (Releases(t) /\ mutex.queue # <<>>) =>
              LET n == Head(mutex.queue)
              IN  /\ mutex'.queue = Tail(mutex.queue)
                  /\ mutex'.locked
                  /\ tasks'[n].pc = "granted"
                  /\ \A u \in Tasks \ {n, t} : tasks'[u] = tasks[u]
    /\ \A t \in Tasks :
          (tasks[t].pc = "queued" /\ tasks'[t].pc # "queued") =>
              /\ t = Head(mutex.queue)
              /\ tasks'[t].pc = "granted"
              /\ \E u \in Tasks : Releases(u)
    /\ \A t \in Tasks :
          (t \notin Holders(tasks) /\ t \in Holders(tasks')) =>
              \/ ~mutex.locked
              \/ mutex.queue # <<>> /\ t = Head(mutex.queue)
    /\ \/ mutex'.queue = mutex.queue
       \/ \E t \in Tasks : mutex'.queue = Append(mutex.queue, t)
       \/ mutex.queue # <<>> /\ mutex'.queue = Tail(mutex.queue)

C29_UnlockWakesFifo == []C29_Inv /\ [][C29_Step]_vars

\* Two callers queued behind the holder; its unlock() passed the mutex to the
\* first of them, the second is still queued, and a tryLock() of the former
\* holder has failed since.
C29_Witness ==
    \E a, b, c \in Tasks :
        /\ tasks[a].pc = "granted"
        /\ ~tasks[a].inWait
        /\ mutex.queue = <<b>>
        /\ ~tasks[b].inWait
        /\ tasks[c].pc = "idle"
        /\ tasks[c].last = "false"

\* C30: at most one task owns the mutex, and the mutex is locked exactly when
\* a task owns it; tryLock() on the locked mutex returns false and leaves the
\* mutex, its queue and the caller as they were.
C30_Inv ==
    /\ Cardinality(Holders(tasks)) <= 1
    /\ mutex.locked <=> Holders(tasks) # {}

C30_Step ==
    \A t \in Tasks :
        (TryLock(t) /\ mutex.locked) =>
            /\ tasks'[t].last = "false"
            /\ tasks'[t].pc = "idle"
            /\ mutex' = mutex

C30_MutualExclusion == []C30_Inv /\ [][C30_Step]_vars

\* One task holds the mutex, one is queued for it, and the tryLock() of a
\* third has returned false and left it out of the queue.
C30_Witness ==
    \E a, b, c \in Tasks :
        /\ tasks[a].pc = "held"
        /\ mutex.queue = <<b>>
        /\ tasks[c].pc = "idle"
        /\ tasks[c].last = "false"

\* ----------------------------------------------- claims: Channel, continued
\* Nothing but trySend has been called on channel 1 so far, apart from
\* tryReceive calls that found it empty: the k-th trySend sent the value k.
OnlyTrySends ==
    /\ sends = <<>>
    /\ recvs = <<>>
    /\ delivered[1] = <<>>
    /\ ~ch[1].closed

\* From a new channel whose capacity is in caps: the first capacity calls of
\* trySend return true, every further one returns false and changes nothing
\* of the channel, and a receive called after such a failed trySend is
\* resolved at the call with the first value sent.
TrySendsThenReceive(caps) ==
    (OnlyTrySends /\ ch[1].capacity \in caps) =>
        /\ TrySend(1) =>
              IF nextVal <= ch[1].capacity
              THEN ret'.ok /\ ch'[1].count = nextVal
              ELSE ~ret'.ok /\ ch' = ch
        /\ (Receive(1) /\ nextVal > ch[1].capacity + 1) =>
              /\ recvs'[1].state = "resolved"
              /\ recvs'[1].ok
              /\ recvs'[1].value = 1
              /\ ch'[1].receiveWaiters = <<>>

\* C32, as stated: for a channel of any capacity C with no receiver waiting,
\* exactly C consecutive trySend calls succeed, the next one returns false and
\* leaves the channel as it was, and a following receive completes at once
\* with the first value that was sent.
C32_AnyCapacity == [][TrySendsThenReceive(0..MaxCap)]_vars

\* C32, amended: the same for a channel of capacity C >= 1.
C32_BufferedCapacity == [][TrySendsThenReceive(1..MaxCap)]_vars

\* A channel of capacity 2 took two trySend calls and refused the third, and
\* the receive that followed was resolved from the buffer with the value 1.
C32_Witness ==
    /\ ch[1].capacity = 2
    /\ sends = <<>>
    /\ ret = Returned("trySend", 1, 3, FALSE)
    /\ Len(recvs) = 1
    /\ recvs[1].state = "resolved" /\ recvs[1].value = 1 /\ recvs[1].via = "buffer"
    /\ ch[1].count = 1

\* C33: close() of a channel that is closed already changes nothing: the
\* buffer, the count, both queues and the closed flag stay as they are, no
\* promise of a send or a receive settles, nothing is delivered, and the call
\* returns normally.
C33_Step ==
    \A c \in Chans :
        (Close(c) /\ ch[c].closed) =>
            UNCHANGED <<ch, sends, recvs, delivered, ret, sels>>

C33_CloseIdempotent == [][C33_Step]_vars

\* A closed channel that a second close() could disturb: its buffer of
\* capacity 2 is still full, and a send called after the first close() has
\* been rejected.
C33_Witness ==
    /\ ch[1].closed
    /\ ch[1].capacity = 2
    /\ ch[1].count = 2
    /\ \E id \in 1..Len(sends) : sends[id].state = "rejected"

\* C37: whenever a sender is queued on a channel, the buffer of the channel is
\* full (count = capacity, which is 0 = 0 on a channel without buffer) and no
\* receiver is queued.
C37_SenderQueuedOnlyWhenFull ==
    \A c \in Chans :
        Len(ch[c].sendWaiters) > 0 =>
            /\ ch[c].count = ch[c].capacity
            /\ Len(ch[c].receiveWaiters) = 0

\* A receive took a value from the full buffer of a channel with two queued
\* senders: the first of them filled the free slot, the second is still
\* queued, and the buffer is full again.
C37_Witness ==
    /\ ch[1].capacity = 1
    /\ ch[1].count = 1
    /\ Len(ch[1].sendWaiters) = 1
    /\ \E id \in 1..Len(sends) : sends[id].via = "processSendWaiters"
    /\ sends[Head(ch[1].sendWaiters).resolve].state = "pending"

\* The values a channel holds or has handed to a receiver.
Delivered(c) == {delivered[c][i] : i \in 1..Len(delivered[c])}

Held(chn) ==
    {BufferSeq(chn)[i] : i \in 1..chn.count}
        \cup {chn.sendWaiters[i].value : i \in 1..Len(chn.sendWaiters)}

\* C38: values are conserved.  No value is delivered twice or both delivered
\* and held; every value of a send that was not rejected, and every value a
\* trySend accepted, is delivered or held by the buffer or a queued sender;
\* and a value that is delivered or held in one state is delivered or held in
\* the next.
C38_Once ==
    \A c \in Chans :
        LET all == delivered[c] \o BufferSeq(ch[c]) \o WaiterValues(ch[c])
        IN  \A i, j \in 1..Len(all) : all[i] = all[j] => i = j

C38_Accepted ==
    /\ \A id \in 1..Len(sends) :
          sends[id].state # "rejected" =>
              sends[id].value \in Delivered(sends[id].ch) \cup Held(ch[sends[id].ch])
    /\ (ret.op = "trySend" /\ ret.ok) =>
          ret.value \in Delivered(ret.ch) \cup Held(ch[ret.ch])

C38_Step ==
    \A c \in Chans :
        Delivered(c) \cup Held(ch[c]) \subseteq Delivered(c)' \cup Held(ch'[c])

C38_ValuesConserved == [](C38_Once /\ C38_Accepted) /\ [][C38_Step]_vars

\* C38 for every step but a close() of a channel with queued senders.
C38_StepButClose ==
    \A c \in Chans :
        ~(Close(c) /\ Len(ch[c].sendWaiters) > 0) =>
            Delivered(c) \cup Held(ch[c]) \subseteq Delivered(c)' \cup Held(ch'[c])

C38_ConservedButClose == []C38_Once /\ [][C38_StepButClose]_vars

\* ------------------------------------------------ claims: select, continued
\* The k-th operation of select call s lost the race and is still pending.
StaleOp(s, k) ==
    /\ sels[s].state = "returned"
    /\ k # sels[s].winner
    /\ ~Settled(s, k)

\* The k-th operation of select call s is in the queue of its channel.
Queued(s, k) ==
    LET op == sels[s].ops[k]
        chn == ch[op.channel]
    IN  IF op.type = "receive"
        THEN \E i \in 1..Len(chn.receiveWaiters) : chn.receiveWaiters[i].resolve = op.promise
        ELSE \E i \in 1..Len(chn.sendWaiters) : chn.sendWaiters[i].resolve = op.promise

\* C35: select cancels nothing.  The step in which select returns changes no
\* channel and settles no promise; afterwards the pending operation of a
\* losing case is still in the queue of its channel, as long as the channel is
\* open; and a later send or receive that finds it at the head of the queue is
\* matched with it (the stale receive takes the value, the stale send gives
\* its value) while the select call runs no further action.
C35_Queued ==
    \A s \in 1..Len(sels) : \A k \in 1..Len(sels[s].ops) :
        (StaleOp(s, k) /\ ~ch[sels[s].ops[k].channel].closed) => Queued(s, k)

C35_Step ==
    /\ \A s \in 1..Len(sels) :
          SelectContinue(s) => UNCHANGED <<ch, sends, recvs, delivered>>
    /\ \A s \in 1..Len(sels) : \A k \in 1..Len(sels[s].ops) :
          LET op == sels[s].ops[k]
              chn == ch[op.channel]
          IN  StaleOp(s, k) =>
                /\ sels'[s] = sels[s]
                /\ (/\ op.type = "receive"
                    /\ chn.receiveWaiters # <<>>
                    /\ Head(chn.receiveWaiters).resolve = op.promise
                    /\ Send(op.channel)) =>
                       /\ recvs'[op.promise].state = "resolved"
                       /\ recvs'[op.promise].value = nextVal
                       /\ sends'[Len(sends')].state = "resolved"
                /\ (/\ op.type = "send"
                    /\ chn.count = 0
                    /\ chn.sendWaiters # <<>>
                    /\ Head(chn.sendWaiters).resolve = op.promise
                    /\ Receive(op.channel)) =>
                       /\ sends'[op.promise].state = "resolved"
                       /\ recvs'[Len(recvs')].state = "resolved"
                       /\ recvs'[Len(recvs')].value = sends[op.promise].value

C35_LosersStayQueued == []C35_Queued /\ [][C35_Step]_vars

\* A select with a receive case on each channel returned after the receive on
\* channel 2 won; its receive on channel 1 stayed queued and has since taken
\* the value of a plain send, and the call has run the one action only.
C35_Witness ==
    /\ Len(sels) = 1 /\ sels[1].state = "returned" /\ Len(sels[1].ops) = 2
    /\ sels[1].ran = <<sels[1].ops[sels[1].winner].idx>>
    /\ \E k \in 1..2 :
          LET op == sels[1].ops[k] IN
          /\ k # sels[1].winner
          /\ op.type = "receive" /\ op.channel = 1
          /\ sels[1].ops[sels[1].winner].channel = 2
          /\ recvs[op.promise].state = "resolved"
          /\ recvs[op.promise].ok
          /\ recvs[op.promise].via = "send"

\* The least element of a set of case positions.
FirstOf(S) == CHOOSE i \in S : \A j \in S : i <= j

ReadyCases(cases, type) ==
    {i \in 1..Len(cases) : cases[i].type = type /\ ImmediatelySatisfiable(cases[i])}

\* The winner of a select call over these cases, started in this step, is as
\* C39 says: with a receive case ready it is the first ready receive case in
\* the list, whatever the place of the send cases; with several send cases
\* ready and no receive case ready it is a send case.
WinnerAsListed(cases) ==
    LET sl == sels'[Len(sels')]
        readyReceives == ReadyCases(cases, "receive")
        readySends == ReadyCases(cases, "send")
    IN  /\ (readyReceives # {} /\ Cardinality(readyReceives \cup readySends) >= 2) =>
              /\ sl.state = "racing"
              /\ sl.winner # 0
              /\ sl.ops[sl.winner].idx = FirstOf(readyReceives)
        /\ (readyReceives = {} /\ Cardinality(readySends) >= 2) =>
              /\ sl.state = "racing"
              /\ sl.winner # 0
              /\ sl.ops[sl.winner].type = "send"
        /\ (sl.state = "racing" /\ sl.winner # 0 /\ sl.ops[sl.winner].type = "send") =>
              readyReceives = {}

\* The action select runs is the action of the winner, and the winner of a
\* call never changes.
WinnerRuns ==
    \A s \in 1..Len(sels) :
        /\ sels[s].winner # 0 => sels'[s].winner = sels[s].winner
        /\ (sels[s].state = "racing" /\ sels'[s].state = "returned") =>
              sels'[s].ran = <<sels[s].ops[sels[s].winner].idx>>

\* C39: when several cases of a select call are ready at call time, the
\* action run is that of the first ready receive case in listing order, and
\* the action of a send case runs only when no receive case is ready.
C39_Step ==
    /\ (SelectCalled /\ sels'[Len(sels')].state # "threw") =>
           WinnerAsListed(sels'[Len(sels')].cases)
    /\ WinnerRuns

C39_FirstReadyReceiveWins == [][C39_Step]_vars

\* C39 for the select calls without a default case.
C39_StepNoDefault ==
    /\ (SelectCalled /\ sels'[Len(sels')].state # "threw"
            /\ ~HasDefault(sels'[Len(sels')].cases)) =>
           WinnerAsListed(sels'[Len(sels')].cases)
    /\ WinnerRuns

C39_NoDefault == [][C39_StepNoDefault]_vars

\* ---------------------------------------------- claims: contexts, continued
\* The state (Active or Done) or the cause of context d changes in this step.
StateChanges(d) ==
    \/ ctxs'[d].err # ctxs[d].err
    \/ (ctxs'[d].done = "resolved") # (ctxs[d].done = "resolved")

\* The step is an operation on context d itself: its cancel function, its
\* timer, its signal, or a callback registered for its own signal or promise.
OwnOperation(d) ==
    \/ CallCancel(d)
    \/ \E err \in {NoError, CallerError(1), CallerError(2)} : CallCancelCause(d, err)
    \/ \E reason \in {NoError, CallerError(1), NotAnError} : CallAbort(d, reason)
    \/ TimerFires(d)
    \/ RunJob /\ Head(jobs).ctx = d /\ Head(jobs).type # "propagate"

\* The step is the callback that d registered on the done() of its parent,
\* run when the parent is Done.
ParentPropagates(d) ==
    /\ RunJob
    /\ Head(jobs) = PropagateJob(d)
    /\ Done(ctxs[d].parent)

\* C34: cancellation goes downward only.  The state or cause of a context
\* changes by an operation on that context or by the propagation from its
\* parent, which is Done then, and no step changes two contexts: a context
\* that becomes Done changes neither its parent or ancestors nor its siblings.
\* The background context is never Done and its err() is always undefined.
C34_Background ==
    /\ ctxs[1].kind = "background"
    /\ ctxs[1].err = NoError
    /\ ~Done(1)

C34_Step ==
    /\ \A d \in CtxIds :
          StateChanges(d) => d # 1 /\ (OwnOperation(d) \/ ParentPropagates(d))
    /\ \A c, d \in CtxIds :
          (StateChanges(c) /\ StateChanges(d)) => c = d

C34_StrictlyDownward == []C34_Background /\ [][C34_Step]_vars

\* Two contexts derived from the background context: one is Done with a
\* cause, and with no callback left to run its sibling and the background
\* context are Active with err() undefined.
C34_Witness ==
    /\ Len(ctxs) = 3
    /\ ctxs[2].parent = 1 /\ ctxs[3].parent = 1
    /\ Done(3) /\ ctxs[3].err # NoError
    /\ ~Done(2) /\ ctxs[2].err = NoError
    /\ ~Done(1) /\ ctxs[1].err = NoError
    /\ jobs = <<>>

\* ------------------------------------------------- claims: Cond, continued
\* C36: the wake-up of signal() and broadcast() is deferred.  The call takes
\* the woken waiters off #waiters and hands them to setTimeout: when it
\* returns they are not resumed and no continuation of theirs is ready, and
\* the caller goes on with its synchronous section.  The waiter of a
\* signalled task runs only as a timer, when no synchronous section is running
\* and no microtask is left, and the task resumes inside wait() only in a
\* microtask after that.  In no state is the running task one that is
\* suspended.
C36_Running ==
    running # 0 => tasks[running].pc \in {"idle", "held"}

C36_Step ==
    /\ \A t \in Tasks :
          (Signal(t) \/ Broadcast(t)) =>
              /\ running' = t
              /\ microtasks' = microtasks
              /\ \A u \in OnSeq(condWaiters) \ OnSeq(condWaiters') :
                    /\ u \in OnSeq(timers')
                    /\ tasks'[u].pc = "signalled"
    /\ \A u \in Tasks :
          (tasks[u].pc = "waiting" /\ tasks'[u].pc # "waiting") =>
              /\ u \notin OnSeq(condWaiters')
              /\ tasks'[u].pc = "signalled"
    /\ \A u \in Tasks :
          (tasks[u].pc = "signalled" /\ tasks'[u].pc # "signalled") =>
              /\ WaiterTimerFires
              /\ running = 0
              /\ microtasks = <<>>
              /\ tasks'[u].pc = "woken"
    /\ \A u \in Tasks :
          (tasks[u].pc = "woken" /\ tasks'[u].pc # "woken") =>
              RunMicrotask /\ running = 0

C36_WakeUpDeferred == []C36_Running /\ [][C36_Step]_vars

\* A task has called signal() and then unlock() and is still in its
\* synchronous section; the waiter it signalled is off #waiters and on the
\* timers, not resumed.
C36_Witness ==
    \E t, u \in Tasks :
        /\ running = t
        /\ tasks[t].pc = "idle"
        /\ ~mutex.locked
        /\ tasks[u].pc = "signalled"
        /\ tasks[u].woken = "signal"
        /\ condWaiters = <<>>
        /\ timers = <<u>>

\* C40: a wait() is woken at most once, and only by a signal() or broadcast()
\* called after its waiter was pushed.  wait() leaves its task waiting on
\* #waiters, whatever was signalled before; the task leaves #waiters only in
\* a step that is a signal() or a broadcast(); no task is on #waiters twice or
\* on the timers twice or on both, so that a signalled waiter is out of reach
\* of a later signal() or broadcast(); and the waiter of a task runs only
\* while the task is signalled, after which it is on neither queue.
C40_Inv ==
    /\ Distinct(condWaiters \o timers)
    /\ \A t \in Tasks :
          /\ t \in OnSeq(condWaiters) <=> tasks[t].pc = "waiting"
          /\ t \in OnSeq(timers) <=> tasks[t].pc = "signalled"
          /\ tasks[t].pc = "waiting" => tasks[t].woken = "no"
          /\ tasks[t].pc \in {"signalled", "woken"} => tasks[t].woken # "no"

C40_Step ==
    /\ \A t \in Tasks :
          Wait(t) =>
              /\ tasks'[t].pc = "waiting"
              /\ tasks'[t].woken = "no"
              /\ timers' = timers
              /\ microtasks' = microtasks \/ \E u \in Tasks \ {t} : microtasks' = Append(microtasks, u)
    /\ \A t \in Tasks :
          (tasks[t].pc = "waiting" /\ tasks'[t].pc # "waiting") =>
              \E u \in Tasks : Signal(u) \/ Broadcast(u)
    /\ \A t \in Tasks :
          (Signal(t) /\ condWaiters = <<>>) =>
              UNCHANGED <<mutex, condWaiters, tasks, microtasks, timers>>
    /\ \A t \in Tasks :
          (tasks'[t].pc = "woken" /\ tasks[t].pc # "woken") =>
              /\ tasks[t].pc = "signalled"
              /\ t \notin OnSeq(timers')
              /\ t \notin OnSeq(condWaiters')
    /\ \A t \in Tasks :
          (tasks[t].woken # "no" /\ tasks'[t].woken # tasks[t].woken) =>
              Wait(t)

C40_WokenAtMostOnce == []C40_Inv /\ [][C40_Step]_vars

\* One waiter was taken by signal(); a broadcast() called after it took the
\* other waiter only: each is on the timers once, in that order.
C40_Witness ==
    \E a, b \in Tasks :
        /\ tasks[a].woken = "signal"
        /\ tasks[b].woken = "broadcast"
        /\ timers = <<a, b>>
        /\ condWaiters = <<>>

\* ------------------------------------------------------ claims: WaitGroup
\* C31: wait() called with the counter at 0 is resolved at the call; called
\* with the counter above 0 it is pending, and it stays pending in every step
\* that leaves the counter above 0 and is resolved in the step in which add()
\* or done() brings the counter to 0, together with every other pending
\* wait(): no wait() is pending while the counter is 0.
C31_Inv ==
    \A i \in 1..Len(wg.waits) :
        /\ wg.waits[i].state = "pending" => wg.counter > 0 /\ wg.waits[i].at > 0
        /\ wg.waits[i].via = "call" => wg.waits[i].at = 0
        /\ wg.waits[i].via = "zero" => wg.waits[i].at > 0 /\ wg.waits[i].state = "resolved"

C31_Step ==
    /\ WgWait =>
          wg'.waits[Len(wg'.waits)].state = IF wg.counter = 0 THEN "resolved" ELSE "pending"
    /\ \A i \in 1..Len(wg.waits) :
          wg.waits[i].state = "pending" =>
              (wg'.waits[i].state = "resolved" <=> wg'.counter = 0)
    /\ \A i \in 1..Len(wg.waits) :
          wg.waits[i].state = "resolved" => wg'.waits[i] = wg.waits[i]

C31_WaitUntilZero == []C31_Inv /\ [][C31_Step]_vars

\* Two calls of wait() found the counter at 3 and were pending; both were
\* resolved when the counter came back to 0, and a third call made then was
\* resolved at the call.
C31_Witness ==
    /\ wg.counter = 0
    /\ Len(wg.waits) = 3
    /\ wg.waits[1] = [state |-> "resolved", at |-> 3, via |-> "zero"]
    /\ wg.waits[2] = [state |-> "resolved", at |-> 3, via |-> "zero"]
    /\ wg.waits[3] = [state |-> "resolved", at |-> 0, via |-> "call"]

====
